---- MODULE Spec2Model ----
(***************************************************************************)
(* A model of the pic-mirror plugin's untrusted-input ingestion and of its *)
(* cleanup scheduler.                                                      *)
(*                                                                         *)
(* Strings are sequences of tokens: "127.0.0.1" is                         *)
(* <<"127", ".", "0", ".", "0", ".", "1">>, "fe80::1" is                   *)
(* <<"fe80", "::", "1">>.  Prefix, suffix and equality tests are made on   *)
(* the token sequences; numbers are read off the tokens by DecVal/HexVal.  *)
(* Python's None is the empty sequence.                                    *)
(***************************************************************************)
EXTENDS Integers, Sequences, FiniteSets, TLC

None == <<>>

(***************************************************************************)
(* Part 1.  utils/network_utils.py                                         *)
(***************************************************************************)

\* The value of a decimal token as two 16-bit halves <<hi, lo>>
\* (value = hi * 65536 + lo), so that 32-bit values keep their width.
DecVal ==
    ("0" :> <<0, 0>>) @@ ("1" :> <<0, 1>>) @@ ("8" :> <<0, 8>>) @@
    ("10" :> <<0, 10>>) @@ ("16" :> <<0, 16>>) @@ ("34" :> <<0, 34>>) @@
    ("93" :> <<0, 93>>) @@ ("127" :> <<0, 127>>) @@ ("168" :> <<0, 168>>) @@
    ("169" :> <<0, 169>>) @@ ("172" :> <<0, 172>>) @@ ("184" :> <<0, 184>>) @@
    ("192" :> <<0, 192>>) @@ ("216" :> <<0, 216>>) @@ ("254" :> <<0, 254>>) @@
    ("300" :> <<0, 300>>) @@
    ("134744072" :> <<2056, 2056>>) @@      \* 8.8.8.8
    ("167772161" :> <<2560, 1>>) @@         \* 10.0.0.1
    ("2130706433" :> <<32512, 1>>) @@       \* 127.0.0.1
    ("2852039166" :> <<43518, 43518>>) @@   \* 169.254.169.254
    ("4294967296" :> <<65536, 0>>)          \* 2^32: out of the 32-bit range

\* The value of a hexadecimal group of an IPv6 literal.
HexVal ==
    ("0" :> 0) @@ ("1" :> 1) @@ ("8888" :> 34952) @@ ("2001" :> 8193) @@
    ("4860" :> 18528) @@ ("db8" :> 3512) @@ ("fc00" :> 64512) @@
    ("fe80" :> 65152) @@ ("ffff" :> 65535)

NoAddress == [ok |-> FALSE, version |-> 0, parts |-> <<>>]

\* ipaddress.IPv4Address(s): four decimal octets separated by dots.
ParseIPv4(s) ==
    IF /\ Len(s) = 7
       /\ \A i \in {2, 4, 6} : s[i] = "."
       /\ \A i \in {1, 3, 5, 7} :
             /\ s[i] \in DOMAIN DecVal
             /\ DecVal[s[i]][1] = 0
             /\ DecVal[s[i]][2] <= 255
    THEN [ok |-> TRUE, version |-> 4,
          parts |-> [i \in 1..4 |-> DecVal[s[2 * i - 1]][2]]]
    ELSE NoAddress

\* The hexadecimal groups of one side of an IPv6 literal (g : g : g), or
\* <<"?">> when the side is malformed.
RECURSIVE V6Groups(_)
V6Groups(s) ==
    IF s = <<>> THEN <<>>
    ELSE IF s[1] \notin DOMAIN HexVal THEN <<"?">>
    ELSE IF Len(s) = 1 THEN <<s[1]>>
    ELSE IF s[2] # ":" \/ Len(s) = 2 THEN <<"?">>
    ELSE LET rest == V6Groups(SubSeq(s, 3, Len(s)))
         IN  IF rest = <<"?">> THEN rest ELSE <<s[1]>> \o rest

\* ipaddress.IPv6Address(s): eight 16-bit groups, one run of zero groups may
\* be written "::".
ParseIPv6(s) ==
    LET dbl   == {i \in 1..Len(s) : s[i] = "::"}
        cut   == IF dbl = {} THEN Len(s) + 1 ELSE CHOOSE i \in dbl : TRUE
        left  == V6Groups(SubSeq(s, 1, cut - 1))
        right == V6Groups(SubSeq(s, cut + 1, Len(s)))
        fill  == 8 - Len(left) - Len(right)
        zeros == [i \in 1..fill |-> 0]
        val(g) == [i \in 1..Len(g) |-> HexVal[g[i]]]
    IN  IF \/ s = <<>>
           \/ Cardinality(dbl) > 1
           \/ left = <<"?">> \/ right = <<"?">>
           \/ (dbl = {} /\ fill # 0)
           \/ (dbl # {} /\ fill < 1)
        THEN NoAddress
        ELSE [ok |-> TRUE, version |-> 6,
              parts |-> val(left) \o zeros \o val(right)]

\* ipaddress.ip_address(s) for a string s: IPv4, else IPv6, else ValueError.
ip_address(s) ==
    IF ParseIPv4(s).ok THEN ParseIPv4(s) ELSE ParseIPv6(s)

\* ipaddress.ip_address(n) for the integer written by token t, 0 <= n < 2^32.
ip_address_int(t) ==
    LET v == DecVal[t]
    IN  [ok |-> TRUE, version |-> 4,
         parts |-> <<v[1] \div 256, v[1] % 256, v[2] \div 256, v[2] % 256>>]

\* IPv4Address.is_private / IPv6Address.is_private (the networks of the
\* iana-ipv4/ipv6-special-registry that the standard library lists).
is_private(a) ==
    LET p == a.parts
    IN  IF a.version = 4
        THEN \/ p[1] = 0
             \/ p[1] = 10
             \/ p[1] = 127
             \/ (p[1] = 169 /\ p[2] = 254)
             \/ (p[1] = 172 /\ p[2] \in 16..31)
             \/ (p[1] = 192 /\ p[2] = 168)
             \/ (p[1] = 192 /\ p[2] = 0 /\ p[3] = 2)
             \/ (p[1] = 198 /\ p[2] \in 18..19)
             \/ p[1] >= 240
        ELSE \/ (\A i \in 1..7 : p[i] = 0) /\ p[8] \in {0, 1}
             \/ (\A i \in 1..5 : p[i] = 0) /\ p[6] = 65535
             \/ (p[1] = 8193 /\ p[2] < 512)
             \/ (p[1] = 8193 /\ p[2] = 3512)
             \/ p[1] \div 512 = 126          \* fc00::/7
             \/ p[1] \div 64 = 1018          \* fe80::/10

is_loopback(a) ==
    IF a.version = 4 THEN a.parts[1] = 127
    ELSE (\A i \in 1..7 : a.parts[i] = 0) /\ a.parts[8] = 1

is_link_local(a) ==
    IF a.version = 4 THEN a.parts[1] = 169 /\ a.parts[2] = 254
    ELSE a.parts[1] \div 64 = 1018

\* NetworkUtils._is_private_ip: a string that ip_address cannot parse raises
\* ValueError, which is answered with False.
is_private_ip(ip_str) ==
    LET ip == ip_address(ip_str)
    IN  IF ~ip.ok THEN FALSE
        ELSE is_private(ip) \/ is_loopback(ip) \/ is_link_local(ip)

\* NetworkUtils._is_ip_format: an address literal, or a decimal integer of
\* the 32-bit range.
is_ip_format(hostname) ==
    \/ ip_address(hostname).ok
    \/ /\ Len(hostname) = 1
       /\ hostname[1] \in DOMAIN DecVal
       /\ DecVal[hostname[1]][1] <= 65535

StartsWith(s, p) == Len(p) <= Len(s) /\ SubSeq(s, 1, Len(p)) = p

EndsWith(s, p) == Len(p) <= Len(s) /\ SubSeq(s, Len(s) - Len(p) + 1, Len(s)) = p

DANGEROUS_PATTERNS ==
    { <<"localhost">>,
      <<"127", ".", "0", ".", "0", ".", "1">>,
      <<"0", ".", "0", ".", "0", ".", "0">>,
      <<"::", "1">>,
      <<"169", ".", "254", ".">>,
      <<"metadata", ".">>,
      <<".", "internal">>,
      <<".", "local">>,
      <<".", "localdomain">> }

\* The denylist loop of _is_safe_url_with_ip.
matches_dangerous_pattern(hostname) ==
    \E pattern \in DANGEROUS_PATTERNS :
        LET clean_pattern == IF pattern[1] = "." THEN Tail(pattern) ELSE pattern
        IN  \/ hostname = pattern
            \/ EndsWith(hostname, <<".">> \o clean_pattern)
            \/ StartsWith(hostname, pattern)


\* One answer of loop.getaddrinfo: a list of addresses ("ok", perhaps
\* empty), socket.gaierror, or any other exception (cancellation, timeout).
Answer(kind, addrs) == [kind |-> kind, addrs |-> addrs]

\* _resolve_hostname with every exception treated like socket.gaierror.
resolve_hostname_lenient(a4, a6, aU) ==
    IF a4.kind = "ok" /\ a4.addrs # <<>> THEN a4.addrs[1]
    ELSE IF a6.kind = "ok" /\ a6.addrs # <<>> THEN a6.addrs[1]
    ELSE IF aU.kind = "ok" /\ aU.addrs # <<>> THEN aU.addrs[1]
    ELSE None

\* NetworkUtils._resolve_hostname, given what getaddrinfo answers for
\* AF_INET, AF_INET6 and AF_UNSPEC.  A gaierror moves on to the next family;
\* any other exception ends in None.
resolve_hostname(a4, a6, aU) ==
    IF a4.kind = "exc" THEN None
    ELSE IF a4.kind = "ok" /\ a4.addrs # <<>> THEN a4.addrs[1]
    ELSE IF a6.kind = "exc" THEN None
    ELSE IF a6.kind = "ok" /\ a6.addrs # <<>> THEN a6.addrs[1]
    ELSE IF aU.kind = "exc" THEN None
    ELSE IF aU.kind = "ok" /\ aU.addrs # <<>>
         THEN LET v4 == {i \in 1..Len(aU.addrs) :
                            /\ ip_address(aU.addrs[i]).ok
                            /\ ip_address(aU.addrs[i]).version = 4}
              IN  IF v4 # {}
                  THEN aU.addrs[CHOOSE i \in v4 : \A j \in v4 : i <= j]
                  ELSE aU.addrs[1]
    ELSE None

\* urlparse(url).hostname: the host of the network location, without the
\* brackets of an IPv6 literal.
UrlHostname(url) ==
    LET h == url.host
    IN  IF Len(h) >= 2 /\ h[1] = "[" /\ h[Len(h)] = "]"
        THEN SubSeq(h, 2, Len(h) - 1)
        ELSE h

\* Step 3 of _is_safe_url_with_ip: the resolved address is refused when
\* resolution failed or the address is private.
check_resolved_ip_unchecked(resolved_ip, hostname) ==
    IF resolved_ip = None THEN None ELSE <<resolved_ip, hostname>>

check_resolved_ip(resolved_ip, hostname) ==
    IF resolved_ip = None THEN None
    ELSE IF is_private_ip(resolved_ip) THEN None
    ELSE <<resolved_ip, hostname>>

\* NetworkUtils._is_safe_url_with_ip: None, or <<safe ip, hostname>>.
is_safe_url_with_ip(url, a4, a6, aU) ==
    LET hostname == UrlHostname(url)
    IN  IF url.scheme \notin {"http", "https"} THEN None
        ELSE IF hostname = <<>> THEN None
        ELSE IF is_ip_format(hostname)
             THEN IF is_private_ip(hostname) THEN None
                  ELSE <<hostname, hostname>>
        ELSE IF /\ hostname[1] = "[" /\ hostname[Len(hostname)] = "]"
                /\ is_ip_format(SubSeq(hostname, 2, Len(hostname) - 1))
             THEN IF is_private_ip(SubSeq(hostname, 2, Len(hostname) - 1))
                  THEN None
                  ELSE <<SubSeq(hostname, 2, Len(hostname) - 1), hostname>>
        ELSE IF matches_dangerous_pattern(hostname) THEN None
        ELSE check_resolved_ip(resolve_hostname(a4, a6, aU), hostname)

\* FixedDNSResolver.resolve: the pinned address for a hostname of
\* safe_resolutions (nothing when the pinned string is no address or its
\* family differs from the one asked for); any other hostname is handed to
\* the default resolver, whose answer is default_answer.
FixedDNSResolver_resolve(safe_resolutions, hostname, family, default_answer) ==
    IF \E r \in safe_resolutions : r[1] = hostname
    THEN LET safe_ip == (CHOOSE r \in safe_resolutions : r[1] = hostname)[2]
             ip_obj  == ip_address(safe_ip)
         IN  IF ~ip_obj.ok THEN Answer("ok", <<>>)
             ELSE IF family = "AF_INET" /\ ip_obj.version # 4
                  THEN Answer("ok", <<>>)
             ELSE IF family = "AF_INET6" /\ ip_obj.version # 6
                  THEN Answer("ok", <<>>)
             ELSE Answer("ok", <<safe_ip>>)
    ELSE default_answer


(***************************************************************************)
(* The inputs of the download: URLs, DNS answers, responses.               *)
(***************************************************************************)
IP_PUBLIC     == <<"8", ".", "8", ".", "8", ".", "8">>
IP_LOOPBACK   == <<"127", ".", "0", ".", "0", ".", "1">>
IP_PRIVATE    == <<"10", ".", "0", ".", "0", ".", "1">>
IP_METADATA   == <<"169", ".", "254", ".", "169", ".", "254">>
IP6_PUBLIC    == <<"2001", ":", "4860", ":", "4860", "::", "8888">>
IP6_LOOPBACK  == <<"::", "1">>
IP6_LINKLOCAL == <<"fe80", "::", "1">>

\* Host names that are no address literals.
NameHosts ==
    { <<"example", ".", "com">>,
      <<"evil", ".", "test">>,
      <<"localhost">>,
      <<"metadata", ".", "google", ".", "internal">>,
      <<"printer", ".", "local">> }

\* The hosts a URL may name (the network location as written).
Hosts ==
    NameHosts \cup
    { <<>>,
      IP_PUBLIC, IP_LOOPBACK, IP_PRIVATE, IP_METADATA,
      <<"192", ".", "168", ".", "1", ".", "1">>,
      <<"172", ".", "16", ".", "0", ".", "1">>,
      <<"300", ".", "1", ".", "1", ".", "1">>,
      <<"134744072">>, <<"167772161">>, <<"2130706433">>, <<"2852039166">>,
      <<"4294967296">>,
      <<"[">> \o IP6_PUBLIC \o <<"]">>,
      <<"[">> \o IP6_LOOPBACK \o <<"]">>,
      <<"[">> \o IP6_LINKLOCAL \o <<"]">>,
      <<"[", "fc00", "::", "1", "]">> }

Urls == [scheme : {"http", "https", "ftp"}, host : Hosts]

Answers4 ==
    { Answer("gaierror", <<>>), Answer("exc", <<>>), Answer("ok", <<>>) } \cup
    { Answer("ok", <<ip>>) : ip \in {IP_PUBLIC, IP_LOOPBACK, IP_PRIVATE, IP_METADATA} }

Answers6 ==
    { Answer("gaierror", <<>>), Answer("exc", <<>>) } \cup
    { Answer("ok", <<ip>>) : ip \in {IP6_PUBLIC, IP6_LOOPBACK, IP6_LINKLOCAL} }

AnswersU ==
    { Answer("gaierror", <<>>), Answer("exc", <<>>),
      Answer("ok", <<IP6_PUBLIC, IP_PRIVATE>>),
      Answer("ok", <<IP6_LINKLOCAL, IP_PUBLIC>>),
      Answer("ok", <<IP6_PUBLIC>>) }

\* What the default resolver may answer for a hostname that is not pinned.
DefaultAnswers ==
    { Answer("exc", <<>>), Answer("ok", <<IP_PUBLIC>>), Answer("ok", <<IP_METADATA>>) }

\* The hosts a server may redirect to.
RedirectHosts ==
    { <<"example", ".", "com">>, <<"evil", ".", "test">>, IP_PRIVATE }

Families == {"AF_INET", "AF_INET6", "AF_UNSPEC"}

\* The redirects the HTTP client follows in the model (aiohttp follows 10).
MaxRedirects == 1

\* The body sizes a server may send, in bytes.
BodySizes == {0, 100, 20000}

CHUNK_SIZE == 8192

\* NetworkUtils.max_download_size of the NetworkUtils that ImageHandler
\* builds: no config is passed, so the 10 MB default applies.
max_download_size == 10 * 1024 * 1024

VARIABLES
    dl_pc,            \* where download_image / _download_image stands
    dl_url,           \* the URL being downloaded
    safe_info,        \* what _is_safe_url_with_ip returned
    resolved_ip,      \* what _resolve_hostname returned inside the check
    safe_resolutions, \* the FixedDNSResolver's map, as <<hostname, ip>> pairs
    session_open,     \* a ClientSession was created
    requests,         \* GET requests handed to the client
    cur_host,         \* the host of the request in flight
    redirects,        \* redirects followed so far
    client_resolved,  \* addresses the resolver yielded to the client
    connected_to,     \* addresses or literals the client connected to
    body_left,        \* bytes of the response body not yet read
    buffer,           \* len(buffer)
    dl_result,        \* "pending", "None", or "bytes"
    staged            \* temp files written by _save_temp_file

net_vars ==
    << dl_pc, dl_url, safe_info, resolved_ip, safe_resolutions, session_open,
       requests, cur_host, redirects, client_resolved, connected_to,
       body_left, buffer, dl_result, staged >>

VARIABLES
    fs,          \* the file system
    lf_pc,       \* "idle", or "done" once _get_local_file returned
    lf_source,   \* the image source given to _get_local_file
    lf_result    \* what _get_local_file returned

local_vars == <<fs, lf_pc, lf_source, lf_result>>

VARIABLES
    enable_auto_cleanup, \* config.enable_auto_cleanup
    now,                 \* time.time()
    cleanup_queue,       \* CleanupManager.cleanup_queue
    tasks,               \* the one-shot tasks created so far, in order
    pending_tasks,       \* CleanupManager._pending_tasks, as indices of tasks
    cleanup_task,        \* _cleanup_task: "none", "running", "done", "cancelled"
    stop_event,          \* _stop_event.is_set()
    ca_pc,               \* cleanup_all: "idle", "await_loop", "cancel" (running
                         \* between two awaits), "await_task", "returned"
    ca_todo,             \* cleanup_all: the tasks of its list still to visit
    ca_pending_at_call,  \* the tasks that were pending when cleanup_all was called
    ops_parity           \* schedule_cleanup calls and reap cycles so far, modulo 2

cleanup_vars ==
    << enable_auto_cleanup, now, cleanup_queue, tasks, pending_tasks,
       cleanup_task, stop_event, ca_pc, ca_todo, ca_pending_at_call,
       ops_parity >>

VARIABLES
    image_size_limit_mb,  \* config.image_size_limit_mb
    h_pc,                 \* where _prepare_image_file / _process_single_image stands
    h_source,             \* the image source being prepared
    h_decoder_calls,      \* calls of base64.b64decode
    h_data,               \* len(image_data), or None
    h_input,              \* the input path _prepare_image_file returned, or None
    keep_files_hours,     \* config.keep_files_hours
    h_result,             \* "none", or what process_image answered: "success", "failure"
    h_output,             \* the output path of _process_single_image, or None
    h_unlink_failed       \* unlink raised in _cleanup_input_file

handler_vars == <<image_size_limit_mb, h_pc, h_source, h_decoder_calls, h_data, h_input, keep_files_hours, h_result, h_output, h_unlink_failed>>

VARIABLES
    rs_pc,       \* "idle", or "done" once _is_safe_url_with_ip returned
    rs_url,      \* the URL given to _is_safe_url_with_ip
    rs_answers,  \* what getaddrinfo answers for AF_INET, AF_INET6, AF_UNSPEC
    rs_result    \* what _is_safe_url_with_ip returned

resolver_vars == <<rs_pc, rs_url, rs_answers, rs_result>>

VARIABLES
    max_gif_frames,    \* config.max_gif_frames
    max_total_pixels,  \* config.max_total_pixels
    g_pc,              \* _process_gif: "idle", "loop", "done"
    g_nframes,         \* the frames of the image
    g_size,            \* img.width, img.height
    g_frame_count,     \* frame_count
    g_mirrored,        \* len(frames): the frames mirrored so far
    g_result,          \* "none", "ok", or the reason of the failure
    g_output_written   \* the output file exists

gif_vars == <<max_gif_frames, max_total_pixels, g_pc, g_nframes, g_size, g_frame_count, g_mirrored, g_result, g_output_written>>

VARIABLES
    m_pc,      \* "idle", or "done" once _apply_mirror returned
    m_image,   \* the image given to _apply_mirror
    m_mode,    \* the mode given to _apply_mirror
    m_result   \* the image _apply_mirror returned

mirror_vars == <<m_pc, m_image, m_mode, m_result>>

VARIABLES
    initialized,    \* PicMirrorPlugin._initialized
    init_task,      \* _init_task: 0 for None, or the number of the task
    init_tasks,     \* the tasks running _do_initialize: "created" or "done"
    req_pc,         \* each request in _ensure_initialized: "idle", "await", "done"
    req_task,       \* the task each request awaits
    loops_created,  \* calls of asyncio.create_task(self._cleanup_loop())
    init_failed     \* the _do_initialize tasks whose initialisation raised

init_vars == <<initialized, init_task, init_tasks, req_pc, req_task, loops_created, init_failed>>

VARIABLES
    av_pc,        \* the avatar fetch: "idle", "request", "done"
    av_via,       \* which fetch runs: "AvatarService" (get_avatar) or "NetworkUtils" (get_qq_avatar)
    av_url,       \* the index of the URL the loop is at
    av_attempt,   \* attempt of _download_with_retry
    av_attempts,  \* the requests made to each endpoint
    av_last,      \* how the last request to each endpoint ended
    av_sleeps,    \* the backoff sleeps at the current URL, in half seconds
    av_result     \* what the fetch returned: None or the data

avatar_vars == <<av_pc, av_via, av_url, av_attempt, av_attempts, av_last, av_sleeps, av_result>>

VARIABLES
    cf_pc,        \* "idle", or "done" once load_from_dict returned
    config_dict,  \* the dictionary given to load_from_dict
    cf_config     \* the configuration load_from_dict returned

config_vars == <<cf_pc, config_dict, cf_config>>

\* The variables of the later parts other than handler_vars.
beside_handler_vars == <<resolver_vars, gif_vars, mirror_vars, init_vars, avatar_vars, config_vars>>

\* The variables of the later parts other than resolver_vars.
beside_resolver_vars == <<handler_vars, gif_vars, mirror_vars, init_vars, avatar_vars, config_vars>>

\* The variables of the later parts other than gif_vars.
beside_gif_vars == <<handler_vars, resolver_vars, mirror_vars, init_vars, avatar_vars, config_vars>>

\* The variables of the later parts other than mirror_vars.
beside_mirror_vars == <<handler_vars, resolver_vars, gif_vars, init_vars, avatar_vars, config_vars>>

\* The variables of the later parts other than init_vars.
beside_init_vars == <<handler_vars, resolver_vars, gif_vars, mirror_vars, avatar_vars, config_vars>>

\* The variables of the later parts other than avatar_vars.
beside_avatar_vars == <<handler_vars, resolver_vars, gif_vars, mirror_vars, init_vars, config_vars>>

\* The variables of the later parts other than config_vars.
beside_config_vars == <<handler_vars, resolver_vars, gif_vars, mirror_vars, init_vars, avatar_vars>>

aux_vars == <<handler_vars, resolver_vars, gif_vars, mirror_vars, init_vars, avatar_vars, config_vars>>

vars == <<net_vars, local_vars, cleanup_vars, aux_vars>>

\* download_image returns None.
ReturnNone ==
    /\ dl_result' = "None"
    /\ dl_pc' = "returned"

\* download_image, up to the creation of the session: the safety check, and
\* for a safe URL the pinned resolver, the connector and the ClientSession.
download_image_begin(url, a4, a6, aU) ==
    /\ dl_pc = "idle"
    /\ dl_url' = url
    /\ safe_info' = is_safe_url_with_ip(url, a4, a6, aU)
    /\ resolved_ip' =
          IF \/ url.scheme \notin {"http", "https"}
             \/ UrlHostname(url) = <<>>
             \/ is_ip_format(UrlHostname(url))
             \/ matches_dangerous_pattern(UrlHostname(url))
          THEN None
          ELSE resolve_hostname(a4, a6, aU)
    /\ IF safe_info' = None
       THEN /\ ReturnNone
            /\ UNCHANGED <<safe_resolutions, session_open, cur_host>>
       ELSE /\ safe_resolutions' = {<<safe_info'[2], safe_info'[1]>>}
            /\ session_open' = TRUE
            /\ cur_host' = UrlHostname(url)
            /\ dl_pc' = "get"
            /\ UNCHANGED dl_result
    /\ UNCHANGED <<requests, redirects, client_resolved, connected_to,
                   body_left, buffer, staged>>
    /\ UNCHANGED <<local_vars, cleanup_vars, aux_vars>>

\* session.get: the client connects to the request's host.  A host that is
\* an address literal is connected to as it is; any other host is resolved
\* by the session's resolver, and an empty or failed resolution is a
\* connection error, which download_image answers with None.
client_connect(family, default_answer) ==
    /\ dl_pc = "get"
    /\ requests' = requests + 1
    /\ IF ip_address(cur_host).ok
       THEN /\ connected_to' = connected_to \cup {cur_host}
            /\ dl_pc' = "connected"
            /\ UNCHANGED <<client_resolved, dl_result>>
       ELSE LET r == FixedDNSResolver_resolve(safe_resolutions, cur_host,
                                              family, default_answer)
            IN  IF r.kind = "ok" /\ r.addrs # <<>>
                THEN /\ client_resolved' = client_resolved \cup {r.addrs[1]}
                     /\ connected_to' = connected_to \cup {r.addrs[1]}
                     /\ dl_pc' = "connected"
                     /\ UNCHANGED dl_result
                ELSE /\ ReturnNone
                     /\ UNCHANGED <<client_resolved, connected_to>>
    /\ UNCHANGED <<dl_url, safe_info, resolved_ip, safe_resolutions,
                   session_open, cur_host, redirects, body_left, buffer, staged>>
    /\ UNCHANGED <<local_vars, cleanup_vars, aux_vars>>

\* The server answers 200 with a body.
respond_ok(size) ==
    /\ dl_pc = "connected"
    /\ body_left' = size
    /\ dl_pc' = "reading"
    /\ UNCHANGED <<dl_url, safe_info, resolved_ip, safe_resolutions,
                   session_open, requests, cur_host, redirects,
                   client_resolved, connected_to, buffer, dl_result, staged>>
    /\ UNCHANGED <<local_vars, cleanup_vars, aux_vars>>

\* The server answers with a redirect to another host, which the client
\* follows with the same session (allow_redirects is left at its default).
respond_redirect(host) ==
    /\ dl_pc = "connected"
    /\ redirects < MaxRedirects
    /\ host # <<>>
    /\ cur_host' = UrlHostname([scheme |-> "http", host |-> host])
    /\ redirects' = redirects + 1
    /\ dl_pc' = "get"
    /\ UNCHANGED <<dl_url, safe_info, resolved_ip, safe_resolutions,
                   session_open, requests, client_resolved, connected_to,
                   body_left, buffer, dl_result, staged>>
    /\ UNCHANGED <<local_vars, cleanup_vars, aux_vars>>

\* Any status other than 200, a timeout, or any other exception.
download_fail ==
    /\ dl_pc \in {"get", "connected", "reading"}
    /\ ReturnNone
    /\ UNCHANGED <<dl_url, safe_info, resolved_ip, safe_resolutions,
                   session_open, requests, cur_host, redirects,
                   client_resolved, connected_to, body_left, buffer, staged>>
    /\ UNCHANGED <<local_vars, cleanup_vars, aux_vars>>

\* The iter_chunked loop without the size test.
read_chunk_unbounded ==
    /\ dl_pc = "reading"
    /\ body_left > 0
    /\ LET chunk == IF body_left < CHUNK_SIZE THEN body_left ELSE CHUNK_SIZE
       IN  /\ buffer' = buffer + chunk
           /\ body_left' = body_left - chunk
    /\ UNCHANGED <<dl_pc, dl_result>>
    /\ UNCHANGED <<dl_url, safe_info, resolved_ip, safe_resolutions,
                   session_open, requests, cur_host, redirects,
                   client_resolved, connected_to, staged>>
    /\ UNCHANGED <<cleanup_vars, local_vars, aux_vars>>

\* One round of the iter_chunked loop: the chunk is appended, then the size
\* is checked.
read_chunk ==
    /\ dl_pc = "reading"
    /\ body_left > 0
    /\ LET chunk == IF body_left < CHUNK_SIZE THEN body_left ELSE CHUNK_SIZE
       IN  /\ buffer' = buffer + chunk
           /\ body_left' = body_left - chunk
    /\ IF buffer' > max_download_size
       THEN ReturnNone
       ELSE UNCHANGED <<dl_pc, dl_result>>
    /\ UNCHANGED <<dl_url, safe_info, resolved_ip, safe_resolutions,
                   session_open, requests, cur_host, redirects,
                   client_resolved, connected_to, staged>>
    /\ UNCHANGED <<local_vars, cleanup_vars, aux_vars>>

\* The end of the body: download_image returns bytes(buffer).
read_done ==
    /\ dl_pc = "reading"
    /\ body_left = 0
    /\ dl_result' = "bytes"
    /\ dl_pc' = "returned"
    /\ UNCHANGED <<dl_url, safe_info, resolved_ip, safe_resolutions,
                   session_open, requests, cur_host, redirects,
                   client_resolved, connected_to, body_left, buffer, staged>>
    /\ UNCHANGED <<local_vars, cleanup_vars, aux_vars>>

\* ImageHandler._download_image after download_image returned: nothing is
\* staged for None or for an empty body; otherwise _save_temp_file writes a
\* temp file, unless writing fails.
handler_download_image(write_ok) ==
    /\ dl_pc = "returned"
    /\ dl_pc' = "handled"
    /\ IF dl_result = "None" \/ buffer = 0
       THEN UNCHANGED staged
       ELSE staged' = IF write_ok
                      THEN staged \cup {[prefix |-> "downloaded", size |-> buffer]}
                      ELSE staged
    /\ UNCHANGED <<dl_url, safe_info, resolved_ip, safe_resolutions,
                   session_open, requests, cur_host, redirects,
                   client_resolved, connected_to, body_left, buffer, dl_result>>
    /\ UNCHANGED <<local_vars, cleanup_vars, aux_vars>>

NetNext ==
    \/ \E url \in Urls, a4 \in Answers4, a6 \in Answers6, aU \in AnswersU :
          download_image_begin(url, a4, a6, aU)
    \/ \E family \in Families, d \in DefaultAnswers : client_connect(family, d)
    \/ \E size \in BodySizes : respond_ok(size)
    \/ \E host \in RedirectHosts : respond_redirect(host)
    \/ download_fail
    \/ read_chunk
    \/ read_done
    \/ \E write_ok \in BOOLEAN : handler_download_image(write_ok)



\* The address a literal stands for when it is connected to: the address
\* it spells, or for a decimal integer of the 32-bit range the IPv4 address
\* with that value.
Denoted(ip_str) ==
    IF ip_address(ip_str).ok THEN ip_address(ip_str)
    ELSE IF /\ Len(ip_str) = 1
            /\ ip_str[1] \in DOMAIN DecVal
            /\ DecVal[ip_str[1]][1] <= 65535
         THEN ip_address_int(ip_str[1])
    ELSE NoAddress

\* C1: whenever _is_safe_url_with_ip returns a target (ip, hostname), ip
\* denotes an address that is not private, loopback or link-local, whether
\* it came from a dotted IPv4 literal, an IPv6 literal, a DNS answer or an
\* integer-encoded IPv4 literal.
C1_TargetNeverPrivate ==
    safe_info # None =>
        LET a == Denoted(safe_info[1])
        IN  a.ok /\ ~(is_private(a) \/ is_loopback(a) \/ is_link_local(a))

\* The host of the URL is, or was resolved to, 169.254.169.254.
UrlLeadsToMetadata ==
    /\ dl_pc # "idle"
    /\ dl_url.scheme \in {"http", "https"}
    /\ \/ UrlHostname(dl_url) = IP_METADATA
       \/ resolved_ip = IP_METADATA

\* C2: no session is opened, no request is issued and no byte is read
\* unless the safety check returned a target for the URL; and a URL whose
\* host resolves to 169.254.169.254 ends in None with no request made and no
\* temp file staged.
C2_NoRequestUnlessSafe ==
    /\ (session_open \/ requests > 0 \/ connected_to # {} \/ buffer > 0)
          => safe_info # None
    /\ UrlLeadsToMetadata =>
          /\ dl_pc \in {"returned", "handled"}
          /\ dl_result = "None"
          /\ ~session_open /\ requests = 0 /\ buffer = 0
          /\ staged = {}

C2_Witness ==
    /\ dl_pc = "handled"
    /\ resolved_ip = IP_METADATA
    /\ dl_result = "None"
    /\ staged = {}

\* C3: every address the session's resolver yields to the HTTP client
\* during one download_image call, for the checked hostname or for any
\* other one, is the address the safety check validated.
C3_ClientResolvesOnlyValidated ==
    \A a \in client_resolved : safe_info # None /\ a = safe_info[1]


(***************************************************************************)
(* Part 2.  Paths and the file system (pathlib), and                       *)
(* ImageHandler._get_local_file.                                           *)
(*                                                                         *)
(* A Path is the sequence of its parts; an absolute path starts with "/".  *)
(* The file system maps the absolute path of every directory entry to its  *)
(* node: a directory, a regular file, or a symbolic link with its target.  *)
(***************************************************************************)

\* StarTools.get_data_dir(plugin_name): the plugin's data directory.
DATA_DIR == <<"/", "data">>

Dir == [kind |-> "dir", target |-> <<>>]
File == [kind |-> "file", target |-> <<>>]
Link(target) == [kind |-> "link", target |-> target]

\* Path(string): the parts between the separators, without "." parts; a
\* leading separator makes the path absolute.
RECURSIVE PathParts(_)
PathParts(str) ==
    IF str = <<>> THEN <<>>
    ELSE IF Head(str) \in {"/", "."} THEN PathParts(Tail(str))
    ELSE <<Head(str)>> \o PathParts(Tail(str))

PathOf(str) ==
    IF str # <<>> /\ Head(str) = "/" THEN <<"/">> \o PathParts(str)
    ELSE PathParts(str)

is_absolute(path) == path # <<>> /\ Head(path) = "/"

\* base / path
JoinPath(base, path) == IF is_absolute(path) THEN path ELSE base \o path

Parent(path) == IF Len(path) <= 1 THEN path ELSE SubSeq(path, 1, Len(path) - 1)

\* os.path.realpath: the parts are walked from the left; ".." drops the
\* last part of what is resolved so far, a symbolic link is replaced by its
\* target, a part that does not exist is kept as it is.
RECURSIVE realpath(_, _, _, _)
realpath(fsys, cur, rest, fuel) ==
    IF rest = <<>> THEN cur
    ELSE LET name == Head(rest)
             new  == Append(cur, name)
         IN  IF name = "." THEN realpath(fsys, cur, Tail(rest), fuel)
             ELSE IF name = ".." THEN realpath(fsys, Parent(cur), Tail(rest), fuel)
             ELSE IF new \in DOMAIN fsys /\ fsys[new].kind = "link" /\ fuel > 0
                  THEN IF is_absolute(fsys[new].target)
                       THEN realpath(fsys, <<"/">>, Tail(fsys[new].target) \o Tail(rest),
                                     fuel - 1)
                       ELSE realpath(fsys, cur, fsys[new].target \o Tail(rest), fuel - 1)
             ELSE realpath(fsys, new, Tail(rest), fuel)

\* Path.resolve() of an absolute path.
resolve(fsys, path) == realpath(fsys, <<"/">>, Tail(path), Cardinality(DOMAIN fsys))

\* Path.is_relative_to(other): other's parts are a prefix of the path's.
is_relative_to(path, other) == StartsWith(path, other)

\* The directory entry a path names: its parent resolved, then its name.
EntryOf(fsys, path) ==
    IF Len(path) <= 1 \/ path[Len(path)] \in {".", ".."}
    THEN resolve(fsys, path)
    ELSE Append(resolve(fsys, Parent(path)), path[Len(path)])

\* Path.exists(): symbolic links are followed.
exists(fsys, path) == resolve(fsys, path) \in DOMAIN fsys

\* Path.is_symlink(): the entry itself is a symbolic link.
is_symlink(fsys, path) ==
    EntryOf(fsys, path) \in DOMAIN fsys /\ fsys[EntryOf(fsys, path)].kind = "link"

\* Path.unlink() succeeds on an entry that is no directory: the entry is
\* removed, a symbolic link's target is left alone.
can_unlink(fsys, path) ==
    EntryOf(fsys, path) \in DOMAIN fsys /\ fsys[EntryOf(fsys, path)].kind # "dir"

unlink(fsys, path) == [n \in DOMAIN fsys \ {EntryOf(fsys, path)} |-> fsys[n]]

\* The file system at the start: the data directory with an output file, a
\* subdirectory, a link to a file inside and a link to a file outside.
InitialFS ==
    (<<"/">> :> Dir) @@
    (DATA_DIR :> Dir) @@
    (<<"/", "data", "a.png">> :> File) @@
    (<<"/", "data", "sub">> :> Dir) @@
    (<<"/", "data", "sub", "c.png">> :> File) @@
    (<<"/", "data", "in_link">> :> Link(<<"/", "data", "a.png">>)) @@
    (<<"/", "data", "out_link">> :> Link(<<"/", "etc", "passwd">>)) @@
    (<<"/", "etc">> :> Dir) @@
    (<<"/", "etc", "passwd">> :> File) @@
    (<<"/", "etc", "c.png">> :> File)

\* The data directory's subdirectory is replaced by a symbolic link to a
\* directory outside.
swap_subdir(fsys) ==
    [n \in (DOMAIN fsys \ {<<"/", "data", "sub", "c.png">>}) |->
        IF n = <<"/", "data", "sub">> THEN Link(<<"/", "etc">>) ELSE fsys[n]]

\* ImageHandler._get_local_file without the is_relative_to test.
get_local_file_unconfined(fsys, file_path) ==
    LET clean_path == PathOf(file_path)
        safe_path  == resolve(fsys, JoinPath(DATA_DIR, clean_path))
    IN  IF is_absolute(clean_path) THEN None
        ELSE IF exists(fsys, safe_path) THEN safe_path
        ELSE None

\* ImageHandler._get_local_file: None, or the resolved path.
get_local_file(fsys, file_path) ==
    LET clean_path        == PathOf(file_path)
        safe_path         == resolve(fsys, JoinPath(DATA_DIR, clean_path))
        data_dir_resolved == resolve(fsys, DATA_DIR)
    IN  IF is_absolute(clean_path) THEN None
        ELSE IF is_relative_to(safe_path, data_dir_resolved)
             THEN IF exists(fsys, safe_path) THEN safe_path ELSE None
        ELSE None

\* The local-path image sources of the model.
LocalSources ==
    { <<"a.png">>,
      <<"sub", "/", "c.png">>,
      <<"sub", "/", "..", "/", "a.png">>,
      <<".", "/", "a.png">>,
      <<"missing.png">>,
      <<"..", "/", "etc", "/", "passwd">>,
      <<"sub", "/", "..", "/", "..", "/", "etc", "/", "passwd">>,
      <<"..", "/", "data", "/", "a.png">>,
      <<"/", "etc", "/", "passwd">>,
      <<"/", "data", "/", "a.png">>,
      <<"in_link">>, <<"out_link">>,
      <<>>, <<".">>, <<"sub", "/", "..">>, <<"..">>, <<"sub">> }

\* The file systems _get_local_file may meet: entries of InitialFS may be
\* missing, and the subdirectory may have been replaced by a link.
Removable ==
    { <<"/", "data", "a.png">>, <<"/", "data", "sub", "c.png">>,
      <<"/", "data", "in_link">>, <<"/", "etc", "passwd">> }

FileSystems ==
    LET without(gone) == [n \in DOMAIN InitialFS \ gone |-> InitialFS[n]]
    IN  { without(gone) : gone \in SUBSET Removable } \cup
        { swap_subdir(without(gone)) : gone \in SUBSET Removable }

call_get_local_file(file_path) ==
    /\ lf_pc = "idle"
    /\ lf_pc' = "done"
    /\ lf_source' = file_path
    /\ lf_result' = get_local_file(fs, file_path)
    /\ UNCHANGED fs
    /\ UNCHANGED <<net_vars, cleanup_vars, aux_vars>>

LocalNext == \E file_path \in LocalSources : call_get_local_file(file_path)

\* C9: an image source that is an absolute path or that contains a ".."
\* segment is answered with None.
C9_DotDotOrAbsoluteRejected ==
    (/\ lf_pc = "done"
     /\ \/ is_absolute(PathOf(lf_source))
        \/ \E i \in 1..Len(lf_source) : lf_source[i] = "..")
        => lf_result = None

\* C9 as amended: an image source that is an absolute path, or whose ".."
\* segments take its resolved location out of the data directory, is
\* answered with None.
C9_EscapingOrAbsoluteRejected ==
    (/\ lf_pc = "done"
     /\ \/ is_absolute(PathOf(lf_source))
        \/ /\ \E i \in 1..Len(lf_source) : lf_source[i] = ".."
           /\ ~is_relative_to(resolve(fs, DATA_DIR \o PathOf(lf_source)),
                              resolve(fs, DATA_DIR)))
        => lf_result = None

C9_Witness ==
    /\ lf_pc = "done"
    /\ lf_source = <<"..", "/", "etc", "/", "passwd">>
    /\ <<"/", "etc", "passwd">> \in DOMAIN fs
    /\ lf_result = None

\* C10: a path returned by _get_local_file exists, and its resolved form
\* is inside the resolved data directory and is not the data directory.
C10_ResultStrictlyInside ==
    (lf_pc = "done" /\ lf_result # None) =>
        /\ exists(fs, lf_result)
        /\ is_relative_to(resolve(fs, lf_result), resolve(fs, DATA_DIR))
        /\ resolve(fs, lf_result) # resolve(fs, DATA_DIR)


(***************************************************************************)
(* Part 3.  core/cleanup_manager.py                                        *)
(***************************************************************************)

\* CleanupManager._validate_cleanup_path (plugin_name is never empty: the
\* constructor falls back to PLUGIN_NAME).
validate_cleanup_path(fsys, file_path) ==
    LET safe_path         == resolve(fsys, JoinPath(DATA_DIR, file_path))
        data_dir_resolved == resolve(fsys, DATA_DIR)
    IN  IF ~is_relative_to(safe_path, data_dir_resolved) THEN FALSE
        ELSE IF is_symlink(fsys, safe_path)
             THEN /\ exists(fsys, safe_path)
                  /\ is_relative_to(resolve(fsys, safe_path), data_dir_resolved)
        ELSE TRUE

SECONDS_PER_HOUR == 3600

\* keep_hours <= 0: the file is deleted by a one-shot task, not queued.
is_immediate_strict(keep_hours) == keep_hours < 0

is_immediate(keep_hours) == keep_hours <= 0

\* current_time >= expiry_time
is_expired_late(current_time, expiry_time) == current_time > expiry_time

is_expired(current_time, expiry_time) == current_time >= expiry_time

\* list.remove(item): the first element equal to item is removed.
RECURSIVE RemoveFirst(_, _)
RemoveFirst(queue, item) ==
    IF queue = <<>> THEN <<>>
    ELSE IF Head(queue) = item THEN Tail(queue)
    ELSE <<Head(queue)>> \o RemoveFirst(Tail(queue), item)

RECURSIVE RemoveAll(_, _)
RemoveAll(queue, items) ==
    IF items = <<>> THEN queue
    ELSE RemoveAll(IF \E i \in 1..Len(queue) : queue[i] = Head(items)
                   THEN RemoveFirst(queue, Head(items))
                   ELSE queue,
                   Tail(items))

\* The for loop of _process_cleanup_queue without the try around unlink:
\* the first unlink that raises ends the scan, and nothing is removed from
\* the queue.
RECURSIVE scan_items_abort(_, _, _, _, _)
scan_items_abort(items, fsys, current_time, failing, items_to_remove) ==
    IF items = <<>> THEN [items_to_remove |-> items_to_remove, fs |-> fsys]
    ELSE LET item == Head(items)
         IN  IF ~exists(fsys, item.path)
             THEN scan_items_abort(Tail(items), fsys, current_time, failing,
                                   Append(items_to_remove, item))
             ELSE IF is_expired(current_time, item.expiry_time)
                  THEN IF can_unlink(fsys, item.path) /\ item.path \notin failing
                       THEN scan_items_abort(Tail(items), unlink(fsys, item.path),
                                             current_time, failing,
                                             Append(items_to_remove, item))
                       ELSE [items_to_remove |-> <<>>, fs |-> fsys]
             ELSE scan_items_abort(Tail(items), fsys, current_time, failing,
                                   items_to_remove)

\* The for loop of _process_cleanup_queue over items[i..]: the items to
\* remove and the file system it leaves.  unlink raises for a directory and
\* for the paths of failing; the item then stays.  (A path and an expiry
\* time are never falsy here.)
RECURSIVE scan_items(_, _, _, _, _)
scan_items(items, fsys, current_time, failing, items_to_remove) ==
    IF items = <<>> THEN [items_to_remove |-> items_to_remove, fs |-> fsys]
    ELSE LET item == Head(items)
         IN  IF ~exists(fsys, item.path)
             THEN scan_items(Tail(items), fsys, current_time, failing,
                             Append(items_to_remove, item))
             ELSE IF is_expired(current_time, item.expiry_time)
                  THEN IF can_unlink(fsys, item.path) /\ item.path \notin failing
                       THEN scan_items(Tail(items), unlink(fsys, item.path),
                                       current_time, failing,
                                       Append(items_to_remove, item))
                       ELSE scan_items(Tail(items), fsys, current_time, failing,
                                       items_to_remove)
             ELSE scan_items(Tail(items), fsys, current_time, failing,
                             items_to_remove)

\* CleanupManager._process_cleanup_queue: the queue and the file system
\* after one scan at current_time.
process_cleanup_queue(queue, fsys, current_time, failing) ==
    LET done == scan_items(queue, fsys, current_time, failing, <<>>)
    IN  [queue |-> RemoveAll(queue, done.items_to_remove), fs |-> done.fs]

\* The end of cleanup_all without cleanup_queue.clear().
drain_queue_unfinished(queue, fsys, current_time, failing) ==
    process_cleanup_queue(queue, fsys, current_time, failing)

\* The end of cleanup_all whose last scan takes every entry for expired.
drain_queue_all_expired(queue, fsys, current_time, failing) ==
    [queue |-> <<>>,
     fs |-> process_cleanup_queue(queue, fsys,
                                  current_time + 168 * SECONDS_PER_HOUR,
                                  failing).fs]

\* The end of cleanup_all: one last scan, then cleanup_queue.clear().
drain_queue(queue, fsys, current_time, failing) ==
    [queue |-> <<>>,
     fs |-> process_cleanup_queue(queue, fsys, current_time, failing).fs]

\* The paths handed to schedule_cleanup.
CleanupPaths ==
    { <<"/", "data", "sub", "c.png">>,
      DATA_DIR,
      <<"/", "data", "out_link">>,
      <<"/", "data", "sub", "..", "..", "etc", "passwd">>,
      <<"/", "etc", "passwd">> }

KeepHours == {-1, 0, 1}

\* Bounds of the model: the entries and tasks schedule_cleanup may have
\* created, and the hours the clock may advance.
MaxScheduled == 2

MaxTicks == 1

TICK == SECONDS_PER_HOUR

\* CleanupManager.start without the test of _cleanup_task: every call
\* creates a loop task.
create_cleanup_task_always ==
    IF enable_auto_cleanup
    THEN /\ cleanup_task' = "running"
         /\ loops_created' = loops_created + 1
    ELSE UNCHANGED <<cleanup_task, loops_created>>

\* CleanupManager.start, as it changes _cleanup_task: the loop task is
\* created if auto cleanup is enabled and no loop task was created before.
create_cleanup_task ==
    IF enable_auto_cleanup /\ cleanup_task = "none"
    THEN /\ cleanup_task' = "running"
         /\ loops_created' = loops_created + 1
    ELSE UNCHANGED <<cleanup_task, loops_created>>

\* CleanupManager.start
start ==
    /\ ca_pc = "idle"
    /\ create_cleanup_task
    /\ UNCHANGED <<ops_parity, enable_auto_cleanup, now, cleanup_queue, tasks, pending_tasks,
                   stop_event, ca_pc, ca_todo, ca_pending_at_call, fs>>
    /\ UNCHANGED <<net_vars, lf_pc, lf_source, lf_result, beside_init_vars>>
    /\ UNCHANGED <<initialized, init_task, init_tasks, req_pc, req_task, init_failed>>

\* One iteration of _cleanup_loop: the stop event is not set, the queue is
\* scanned, and the loop waits for the interval or the stop event.  (The
\* parity tells a reap cycle that changes nothing from no step at all; the
\* same holds for a schedule_cleanup call.)
reaper_scan(failing) ==
    /\ cleanup_task = "running"
    /\ ~stop_event
    /\ ca_pc # "cancel"
    /\ ops_parity' = 1 - ops_parity
    /\ UNCHANGED <<enable_auto_cleanup, now, tasks, pending_tasks, cleanup_task,
                   stop_event, ca_pc, ca_todo, ca_pending_at_call>>
    /\ UNCHANGED <<net_vars, lf_pc, lf_source, lf_result, aux_vars>>
    /\ LET after == process_cleanup_queue(cleanup_queue, fs, now, failing)
       IN  /\ cleanup_queue' = after.queue
           /\ fs' = after.fs

\* _cleanup_loop ends: the stop event is set, so the wait returns and the
\* loop breaks (or its while condition fails).
reaper_exit ==
    /\ cleanup_task = "running"
    /\ stop_event
    /\ ca_pc # "cancel"
    /\ cleanup_task' = "done"
    /\ UNCHANGED <<ops_parity, enable_auto_cleanup, now, cleanup_queue, tasks, pending_tasks,
                   stop_event, ca_pc, ca_todo, ca_pending_at_call, fs>>
    /\ UNCHANGED <<net_vars, lf_pc, lf_source, lf_result, aux_vars>>

\* schedule_cleanup without the one-shot task: keep_hours <= 0 schedules
\* nothing.
enqueue_cleanup_queue_only(fsys, file_path, keep_hours) ==
    IF ~validate_cleanup_path(fsys, file_path) \/ is_immediate(keep_hours)
    THEN UNCHANGED <<cleanup_queue, tasks, pending_tasks>>
    ELSE /\ cleanup_queue' =
                Append(cleanup_queue,
                       [path |-> file_path,
                        expiry_time |-> now + keep_hours * SECONDS_PER_HOUR,
                        scheduled_time |-> now])
         /\ UNCHANGED <<tasks, pending_tasks>>

\* schedule_cleanup whose insertion writes the queue anew from an empty
\* list: the entries there were are lost.
enqueue_cleanup_overwrite(fsys, file_path, keep_hours) ==
    IF ~validate_cleanup_path(fsys, file_path)
    THEN UNCHANGED <<cleanup_queue, tasks, pending_tasks>>
    ELSE IF is_immediate(keep_hours)
         THEN /\ tasks' = Append(tasks, [path |-> file_path, state |-> "sleeping"])
              /\ pending_tasks' = pending_tasks \cup {Len(tasks) + 1}
              /\ UNCHANGED cleanup_queue
         ELSE /\ cleanup_queue' =
                     <<[path |-> file_path,
                        expiry_time |-> now + keep_hours * SECONDS_PER_HOUR,
                        scheduled_time |-> now]>>
              /\ UNCHANGED <<tasks, pending_tasks>>

\* schedule_cleanup whose expiry time is counted back from the time of the
\* call.
enqueue_cleanup_backdated(fsys, file_path, keep_hours) ==
    IF ~validate_cleanup_path(fsys, file_path)
    THEN UNCHANGED <<cleanup_queue, tasks, pending_tasks>>
    ELSE IF is_immediate(keep_hours)
         THEN /\ tasks' = Append(tasks, [path |-> file_path, state |-> "sleeping"])
              /\ pending_tasks' = pending_tasks \cup {Len(tasks) + 1}
              /\ UNCHANGED cleanup_queue
         ELSE /\ cleanup_queue' =
                     Append(cleanup_queue,
                            [path |-> file_path,
                             expiry_time |-> now - keep_hours * SECONDS_PER_HOUR,
                             scheduled_time |-> now])
              /\ UNCHANGED <<tasks, pending_tasks>>

\* CleanupManager.schedule_cleanup, as it changes the queue and the tasks: a
\* path that fails validation is dropped; keep_hours <= 0 creates a tracked
\* one-shot task; otherwise an entry is appended to the queue.
enqueue_cleanup(fsys, file_path, keep_hours) ==
    IF ~validate_cleanup_path(fsys, file_path)
    THEN UNCHANGED <<cleanup_queue, tasks, pending_tasks>>
    ELSE IF is_immediate(keep_hours)
         THEN /\ tasks' = Append(tasks, [path |-> file_path, state |-> "sleeping"])
              /\ pending_tasks' = pending_tasks \cup {Len(tasks) + 1}
              /\ UNCHANGED cleanup_queue
         ELSE /\ cleanup_queue' =
                     Append(cleanup_queue,
                            [path |-> file_path,
                             expiry_time |-> now + keep_hours * SECONDS_PER_HOUR,
                             scheduled_time |-> now])
              /\ UNCHANGED <<tasks, pending_tasks>>

\* CleanupManager.schedule_cleanup.  (No coroutine runs while cleanup_all
\* runs between two of its awaits, which is ca_pc = "cancel".)
schedule_cleanup(file_path, keep_hours) ==
    /\ ca_pc \notin {"cancel", "returned"}
    /\ Len(cleanup_queue) + Len(tasks) < MaxScheduled
    /\ ops_parity' = 1 - ops_parity
    /\ UNCHANGED <<enable_auto_cleanup, now, cleanup_task, stop_event, ca_pc,
                   ca_todo, ca_pending_at_call, fs>>
    /\ UNCHANGED <<net_vars, lf_pc, lf_source, lf_result, aux_vars>>
    /\ enqueue_cleanup(fs, file_path, keep_hours)

\* CleanupManager._cleanup_immediately after its sleep: the file is
\* unlinked if it exists (an exception is logged), the task is done, and
\* its done callback discards it from _pending_tasks.
cleanup_immediately(t, unlink_ok) ==
    /\ t \in 1..Len(tasks)
    /\ tasks[t].state = "sleeping"
    /\ ca_pc # "cancel"
    /\ UNCHANGED <<ops_parity, enable_auto_cleanup, now, cleanup_queue, cleanup_task,
                   stop_event, ca_pc, ca_todo, ca_pending_at_call>>
    /\ UNCHANGED <<net_vars, lf_pc, lf_source, lf_result, aux_vars>>
    /\ tasks' = [tasks EXCEPT ![t].state = "done"]
    /\ pending_tasks' = pending_tasks \ {t}
    /\ fs' = IF /\ exists(fs, tasks[t].path)
                /\ can_unlink(fs, tasks[t].path)
                /\ unlink_ok
             THEN unlink(fs, tasks[t].path)
             ELSE fs

\* cleanup_all, up to its first await: with a loop task that is not done
\* the stop event is set and the task awaited; otherwise the pending tasks
\* are listed at once.
cleanup_all_begin ==
    /\ ca_pc = "idle"
    /\ ca_pending_at_call' = pending_tasks
    /\ IF cleanup_task = "running"
       THEN /\ stop_event' = TRUE
            /\ ca_pc' = "await_loop"
            /\ UNCHANGED ca_todo
       ELSE /\ ca_pc' = "cancel"
            /\ ca_todo' = pending_tasks
            /\ UNCHANGED stop_event
    /\ UNCHANGED <<ops_parity, enable_auto_cleanup, now, cleanup_queue, tasks, pending_tasks,
                   cleanup_task, fs>>
    /\ UNCHANGED <<net_vars, lf_pc, lf_source, lf_result, aux_vars>>

\* wait_for(self._cleanup_task) returns: the loop task is done.
cleanup_all_loop_done ==
    /\ ca_pc = "await_loop"
    /\ cleanup_task = "done"
    /\ ca_pc' = "cancel"
    /\ ca_todo' = pending_tasks
    /\ UNCHANGED <<ops_parity, enable_auto_cleanup, now, cleanup_queue, tasks, pending_tasks,
                   cleanup_task, stop_event, ca_pending_at_call, fs>>
    /\ UNCHANGED <<net_vars, lf_pc, lf_source, lf_result, aux_vars>>

\* cleanup_all whose timeout handler goes on without cancelling the loop
\* task.
cleanup_all_timeout_no_cancel ==
    /\ ca_pc = "await_loop"
    /\ cleanup_task = "running"
    /\ ca_pc' = "cancel"
    /\ ca_todo' = pending_tasks
    /\ UNCHANGED <<ops_parity, enable_auto_cleanup, now, cleanup_queue, tasks, pending_tasks,
                   cleanup_task, stop_event, ca_pending_at_call, fs>>
    /\ UNCHANGED <<net_vars, lf_pc, lf_source, lf_result, aux_vars>>

\* wait_for(self._cleanup_task) times out: the loop task is cancelled.
cleanup_all_timeout ==
    /\ ca_pc = "await_loop"
    /\ cleanup_task = "running"
    /\ cleanup_task' = "cancelled"
    /\ ca_pc' = "cancel"
    /\ ca_todo' = pending_tasks
    /\ UNCHANGED <<ops_parity, enable_auto_cleanup, now, cleanup_queue, tasks, pending_tasks,
                   stop_event, ca_pending_at_call, fs>>
    /\ UNCHANGED <<net_vars, lf_pc, lf_source, lf_result, aux_vars>>

\* One round of cleanup_all's loop over list(self._pending_tasks): a task
\* that is not done is cancelled and awaited (its done callback discards
\* it from the set), and other coroutines run during that await; a task
\* that is done is passed over without an await.
cleanup_all_cancel(t) ==
    /\ ca_pc \in {"cancel", "await_task"}
    /\ t \in ca_todo
    /\ ca_todo' = ca_todo \ {t}
    /\ IF tasks[t].state = "sleeping"
       THEN /\ tasks' = [tasks EXCEPT ![t].state = "cancelled"]
            /\ pending_tasks' = pending_tasks \ {t}
            /\ ca_pc' = "await_task"
       ELSE /\ ca_pc' = "cancel"
            /\ UNCHANGED <<tasks, pending_tasks>>
    /\ UNCHANGED <<ops_parity, enable_auto_cleanup, now, cleanup_queue, cleanup_task,
                   stop_event, ca_pending_at_call, fs>>
    /\ UNCHANGED <<net_vars, lf_pc, lf_source, lf_result, aux_vars>>

\* The end of cleanup_all: _pending_tasks.clear(), a last
\* _process_cleanup_queue, cleanup_queue.clear().
cleanup_all_finish(failing) ==
    /\ ca_pc \in {"cancel", "await_task"}
    /\ ca_todo = {}
    /\ UNCHANGED <<ops_parity, enable_auto_cleanup, now, tasks, cleanup_task, stop_event,
                   ca_todo, ca_pending_at_call>>
    /\ UNCHANGED <<net_vars, lf_pc, lf_source, lf_result, aux_vars>>
    /\ pending_tasks' = {}
    /\ LET after == drain_queue(cleanup_queue, fs, now, failing)
       IN  /\ cleanup_queue' = after.queue
           /\ fs' = after.fs
    /\ ca_pc' = "returned"

\* The clock advances.
tick ==
    /\ now + TICK <= MaxTicks * TICK
    /\ now' = now + TICK
    /\ UNCHANGED <<ops_parity, enable_auto_cleanup, cleanup_queue, tasks, pending_tasks,
                   cleanup_task, stop_event, ca_pc, ca_todo, ca_pending_at_call, fs>>
    /\ UNCHANGED <<net_vars, lf_pc, lf_source, lf_result, aux_vars>>

\* Something else replaces the subdirectory by a symbolic link.
env_swap_subdir ==
    /\ <<"/", "data", "sub">> \in DOMAIN fs
    /\ fs[<<"/", "data", "sub">>].kind = "dir"
    /\ fs' = swap_subdir(fs)
    /\ UNCHANGED cleanup_vars
    /\ UNCHANGED <<net_vars, lf_pc, lf_source, lf_result, aux_vars>>

\* The paths whose unlink may raise during one scan.
FailingSets == SUBSET {<<"/", "data", "sub", "c.png">>}

CleanupNext ==
    \/ start
    \/ \E failing \in FailingSets : reaper_scan(failing)
    \/ reaper_exit
    \/ \E file_path \in CleanupPaths, keep_hours \in KeepHours :
          schedule_cleanup(file_path, keep_hours)
    \/ \E t \in 1..MaxScheduled, unlink_ok \in BOOLEAN : cleanup_immediately(t, unlink_ok)
    \/ cleanup_all_begin
    \/ cleanup_all_loop_done
    \/ cleanup_all_timeout
    \/ \E t \in 1..MaxScheduled : cleanup_all_cancel(t)
    \/ \E failing \in FailingSets : cleanup_all_finish(failing)
    \/ tick
    \/ env_swap_subdir


\* The resolved location of file_path is inside the resolved data
\* directory and is not the data directory itself.
StrictlyInside(fsys, file_path) ==
    LET location == resolve(fsys, JoinPath(DATA_DIR, file_path))
    IN  /\ is_relative_to(location, resolve(fsys, DATA_DIR))
        /\ location # resolve(fsys, DATA_DIR)

\* The queue holds no entry equal to item.
NotQueued(queue, item) == \A j \in 1..Len(queue) : queue[j] # item

\* C4: schedule_cleanup on a path whose resolved location is not a strict
\* descendant of the data directory adds no queue entry and spawns no
\* immediate-deletion task (so that nothing the scheduler holds can make it
\* delete that path later).
C4_UnconfinedScheduleHasNoEffect ==
    [][\A file_path \in CleanupPaths, keep_hours \in KeepHours :
          (schedule_cleanup(file_path, keep_hours) /\ ~StrictlyInside(fs, file_path))
              => UNCHANGED <<cleanup_queue, tasks, pending_tasks>>]_vars

\* C5: schedule_cleanup(path, N) with N > 0 on a confined path, the reaper
\* running, leaves the file in place and queues it with expiry now + N hours;
\* and a reap cycle at or after an entry's expiry leaves the file of every
\* confined entry deleted and the entry out of the queue, provided the
\* operating system does not refuse the unlink.
C5_ExpiredEntryReaped ==
    [][/\ \A file_path \in CleanupPaths, keep_hours \in KeepHours :
             (/\ keep_hours > 0
              /\ cleanup_task = "running"
              /\ schedule_cleanup(file_path, keep_hours)
              /\ StrictlyInside(fs, file_path)
              /\ exists(fs, file_path))
                 => /\ exists(fs', file_path)
                    /\ cleanup_queue' # <<>>
                    /\ cleanup_queue'[Len(cleanup_queue')].path = file_path
                    /\ cleanup_queue'[Len(cleanup_queue')].expiry_time
                          = now + keep_hours * SECONDS_PER_HOUR
       /\ \A failing \in FailingSets :
             reaper_scan(failing) =>
                \A i \in 1..Len(cleanup_queue) :
                   (/\ now >= cleanup_queue[i].expiry_time
                    /\ cleanup_queue[i].path \notin failing
                    /\ StrictlyInside(fs, cleanup_queue[i].path))
                       => /\ ~exists(fs', cleanup_queue[i].path)
                          /\ NotQueued(cleanup_queue', cleanup_queue[i])]_vars

\* The reaper alone (no task, no cleanup_all) has deleted a queued file at
\* its expiry.
C5_Witness ==
    /\ cleanup_task = "running"
    /\ tasks = <<>>
    /\ ca_pc = "idle"
    /\ now >= SECONDS_PER_HOUR
    /\ cleanup_queue = <<>>
    /\ <<"/", "data", "sub">> \in DOMAIN fs
    /\ fs[<<"/", "data", "sub">>].kind = "dir"
    /\ ~exists(fs, <<"/", "data", "sub", "c.png">>)

\* C6: schedule_cleanup with hours <= 0 on a confined path leaves the queue
\* as it is and adds one tracked sleeping task for the path; when the task
\* runs, which takes neither a reaper nor a reap cycle, the file of a
\* confined path is gone (the unlink not refused), the task is done and no
\* longer tracked; a cancelled task stays cancelled and never runs.
C6_ImmediateTaskDeletes ==
    [][/\ \A file_path \in CleanupPaths, keep_hours \in KeepHours :
             (/\ keep_hours <= 0
              /\ schedule_cleanup(file_path, keep_hours)
              /\ StrictlyInside(fs, file_path))
                 => /\ cleanup_queue' = cleanup_queue
                    /\ tasks' = Append(tasks, [path |-> file_path, state |-> "sleeping"])
                    /\ pending_tasks' = pending_tasks \cup {Len(tasks')}
       /\ \A t \in 1..Len(tasks) :
             /\ (cleanup_immediately(t, TRUE) /\ StrictlyInside(fs, tasks[t].path))
                   => /\ ~exists(fs', tasks[t].path)
                      /\ tasks'[t].state = "done"
                      /\ t \notin pending_tasks'
             /\ tasks[t].state = "cancelled"
                   => /\ tasks'[t].state = "cancelled"
                      /\ \A unlink_ok \in BOOLEAN : ~cleanup_immediately(t, unlink_ok)]_vars

\* A one-shot task has deleted the file although start() was never called
\* and the queue was never used.
C6_Witness ==
    /\ cleanup_task = "none"
    /\ ca_pc = "idle"
    /\ cleanup_queue = <<>>
    /\ tasks = <<[path |-> <<"/", "data", "sub", "c.png">>, state |-> "done"]>>
    /\ pending_tasks = {}
    /\ fs[<<"/", "data", "sub">>].kind = "dir"
    /\ ~exists(fs, <<"/", "data", "sub", "c.png">>)

\* C7: when cleanup_all has returned, every task that was pending when it
\* was called is cancelled or done, _pending_tasks is empty and the queue
\* is empty.
C7_CleanupAllLeavesNothing ==
    ca_pc = "returned" =>
        /\ \A t \in ca_pending_at_call : tasks[t].state \in {"cancelled", "done"}
        /\ pending_tasks = {}
        /\ cleanup_queue = <<>>

\* cleanup_all has returned without start() ever having been called, and
\* it cancelled a task that was pending.
C7_Witness ==
    /\ ca_pc = "returned"
    /\ cleanup_task = "none"
    /\ \E t \in ca_pending_at_call : tasks[t].state = "cancelled"
    /\ pending_tasks = {}
    /\ cleanup_queue = <<>>

\* C8: in a reap cycle every entry whose path fails the confinement check
\* of _validate_cleanup_path at that time leaves the queue, and the file its
\* path leads to is not deleted.
C8_ReaperRevalidates ==
    [][\A failing \in FailingSets :
          reaper_scan(failing) =>
             \A i \in 1..Len(cleanup_queue) :
                ~validate_cleanup_path(fs, cleanup_queue[i].path)
                   => /\ NotQueued(cleanup_queue', cleanup_queue[i])
                      /\ resolve(fs, cleanup_queue[i].path) \in DOMAIN fs
                            => resolve(fs, cleanup_queue[i].path) \in DOMAIN fs']_vars


(***************************************************************************)
(* Part 3, continued.  The queue under schedule_cleanup calls, scans and   *)
(* cleanup_all in any order, for two output files of the data directory.   *)
(***************************************************************************)

\* The output files handed to schedule_cleanup, the retentions, and the
\* paths whose unlink may raise during one scan.
QueuePaths == {<<"/", "data", "a.png">>, <<"/", "data", "sub", "c.png">>}

QueueKeepHours == {0, 1}

QueueFailingSets == SUBSET QueuePaths

QueueNext ==
    \/ start
    \/ \E failing \in QueueFailingSets : reaper_scan(failing)
    \/ reaper_exit
    \/ \E file_path \in QueuePaths, keep_hours \in QueueKeepHours :
          schedule_cleanup(file_path, keep_hours)
    \/ \E t \in 1..MaxScheduled, unlink_ok \in BOOLEAN : cleanup_immediately(t, unlink_ok)
    \/ cleanup_all_begin
    \/ cleanup_all_loop_done
    \/ cleanup_all_timeout
    \/ \E t \in 1..MaxScheduled : cleanup_all_cancel(t)
    \/ \E failing \in QueueFailingSets : cleanup_all_finish(failing)
    \/ tick

\* The entries of the queue equal to item.
Count(queue, item) == Cardinality({j \in 1..Len(queue) : queue[j] = item})

\* queue is the beginning of longer.
IsPrefix(queue, longer) ==
    /\ Len(queue) <= Len(longer)
    /\ \A j \in 1..Len(queue) : longer[j] = queue[j]

\* C22: whatever the order of schedule_cleanup calls, scans of the loop and
\* cleanup_all, an accepted schedule_cleanup with keep_hours > 0 appends its
\* entry behind the entries there are; a scan removes an entry only when
\* its file is gone afterwards (deleted or missing) and adds none; the end
\* of cleanup_all empties the queue; every other step keeps every entry.
C22_NoEntryLost ==
    [][/\ \A file_path \in QueuePaths, keep_hours \in QueueKeepHours :
             (/\ keep_hours > 0
              /\ validate_cleanup_path(fs, file_path)
              /\ schedule_cleanup(file_path, keep_hours))
                 => /\ Len(cleanup_queue') = Len(cleanup_queue) + 1
                    /\ IsPrefix(cleanup_queue, cleanup_queue')
                    /\ cleanup_queue'[Len(cleanup_queue')].path = file_path
       /\ IF \E failing \in QueueFailingSets : reaper_scan(failing)
          THEN \A i \in 1..Len(cleanup_queue) :
                  LET item == cleanup_queue[i]
                  IN  /\ Count(cleanup_queue', item) <= Count(cleanup_queue, item)
                      /\ Count(cleanup_queue', item) < Count(cleanup_queue, item)
                            => ~exists(fs', item.path)
          ELSE IF \E failing \in QueueFailingSets : cleanup_all_finish(failing)
               THEN cleanup_queue' = <<>>
          ELSE IsPrefix(cleanup_queue, cleanup_queue')
       /\ \A j \in 1..Len(cleanup_queue') :
             Count(cleanup_queue', cleanup_queue'[j]) > Count(cleanup_queue, cleanup_queue'[j])
                => \E file_path \in QueuePaths, keep_hours \in QueueKeepHours :
                      keep_hours > 0 /\ schedule_cleanup(file_path, keep_hours)]_vars

\* Two entries inserted at different times are both in the queue while the
\* loop task runs and has scanned.
C22_Witness ==
    /\ Len(cleanup_queue) = 2
    /\ cleanup_queue[1].scheduled_time < cleanup_queue[2].scheduled_time
    /\ cleanup_task = "running"
    /\ ~stop_event
    /\ ops_parity = 1
    /\ tasks = <<>>


\* C25: in one scan of the loop, an expired entry whose unlink raises stays
\* in the queue with its file in place; every other expired entry whose
\* file exists has its file deleted and is removed, whatever its place
\* in the queue; and an entry whose file is missing is removed.
C25_ScanSurvivesUnlinkFailure ==
    [][\A failing \in QueueFailingSets :
          reaper_scan(failing) =>
             \A i \in 1..Len(cleanup_queue) :
                LET item == cleanup_queue[i]
                IN  /\ (/\ is_expired(now, item.expiry_time)
                        /\ exists(fs, item.path)
                        /\ item.path \in failing)
                          => /\ exists(fs', item.path)
                             /\ Count(cleanup_queue', item) = Count(cleanup_queue, item)
                    /\ (/\ is_expired(now, item.expiry_time)
                        /\ exists(fs, item.path)
                        /\ item.path \notin failing)
                          => /\ ~exists(fs', item.path)
                             /\ NotQueued(cleanup_queue', item)
                    /\ ~exists(fs, item.path) => NotQueued(cleanup_queue', item)]_vars

\* A scan has deleted one expired file and removed its entry while the
\* unlink of the other expired file raised: that entry is still queued and
\* its file is in place (no one-shot task and no cleanup_all took part).
C25_Witness ==
    /\ cleanup_task = "running"
    /\ ca_pc = "idle"
    /\ tasks = <<>>
    /\ Len(cleanup_queue) = 1
    /\ cleanup_queue[1].path = <<"/", "data", "sub", "c.png">>
    /\ is_expired(now, cleanup_queue[1].expiry_time)
    /\ exists(fs, <<"/", "data", "sub", "c.png">>)
    /\ ~exists(fs, <<"/", "data", "a.png">>)

\* C26: every one-shot deletion task created by schedule_cleanup is in
\* _pending_tasks while it is in flight (created, neither finished nor
\* cancelled), and _pending_tasks holds no task that has finished, failed
\* or been cancelled.
C26_PendingTasksAreTheTasksInFlight ==
    \A t \in 1..Len(tasks) :
        (tasks[t].state = "sleeping") <=> (t \in pending_tasks)

\* C28: every entry of the cleanup queue has expiry_time >= scheduled_time
\* (only a keep_hours > 0 puts an entry into the queue, and its expiry time
\* is keep_hours * 3600 seconds after the time of scheduling).
C28_ExpiryNotBeforeScheduled ==
    \A i \in 1..Len(cleanup_queue) :
        /\ cleanup_queue[i].expiry_time >= cleanup_queue[i].scheduled_time
        /\ \E keep_hours \in {h \in QueueKeepHours : h > 0} :
              cleanup_queue[i].expiry_time
                 = cleanup_queue[i].scheduled_time + keep_hours * SECONDS_PER_HOUR

\* The queue holds an entry for the path whose expiry time has passed.
HasExpiredEntry(queue, path, current_time) ==
    \E i \in 1..Len(queue) :
        queue[i].path = path /\ is_expired(current_time, queue[i].expiry_time)

\* C30: a scan of the loop and the end of cleanup_all delete a file only
\* when the queue holds an entry for it whose expiry time has passed; a file
\* whose entries are all unexpired is left on disk by both, a scan keeps
\* those entries, and the end of cleanup_all drops them with the rest of
\* the queue.
C30_OnlyExpiredEntriesDelete ==
    [][/\ ( \/ \E failing \in QueueFailingSets : reaper_scan(failing)
            \/ \E failing \in QueueFailingSets : cleanup_all_finish(failing) )
            => /\ \A path \in DOMAIN fs :
                     path \notin DOMAIN fs'
                        => HasExpiredEntry(cleanup_queue, path, now)
               /\ \A i \in 1..Len(cleanup_queue) :
                     ~HasExpiredEntry(cleanup_queue, cleanup_queue[i].path, now)
                        => exists(fs', cleanup_queue[i].path)
                              = exists(fs, cleanup_queue[i].path)
       /\ (\E failing \in QueueFailingSets : reaper_scan(failing))
            => \A i \in 1..Len(cleanup_queue) :
                  ( /\ ~HasExpiredEntry(cleanup_queue, cleanup_queue[i].path, now)
                    /\ exists(fs, cleanup_queue[i].path) )
                     => Count(cleanup_queue', cleanup_queue[i])
                           = Count(cleanup_queue, cleanup_queue[i])
       /\ (\E failing \in QueueFailingSets : cleanup_all_finish(failing))
            => cleanup_queue' = <<>>]_vars

\* cleanup_all has returned before any entry could expire, with no scan of
\* the loop and no one-shot task: the queue, which held an entry (an odd
\* number of schedule_cleanup calls was made), is empty and both files are
\* on disk.
C30_Witness ==
    /\ ca_pc = "returned"
    /\ cleanup_queue = <<>>
    /\ cleanup_task = "none"
    /\ tasks = <<>>
    /\ ops_parity = 1
    /\ now < SECONDS_PER_HOUR
    /\ \A path \in QueuePaths : exists(fs, path)

\* An entry scheduled after the clock had advanced is in the queue.
C28_Witness ==
    /\ Len(cleanup_queue) >= 1
    /\ cleanup_queue[1].scheduled_time > 0
    /\ cleanup_queue[1].expiry_time > cleanup_queue[1].scheduled_time


(***************************************************************************)
(* Part 3, continued.  cleanup_all against a running _cleanup_loop.        *)
(***************************************************************************)

\* What asyncio guarantees to cleanup_all once it has begun: wait_for
\* returns when the loop task is done or, at the latest, when the timeout
\* of cleanup_timeout seconds fires; the for loop over list(_pending_tasks)
\* goes on (a cancelled task ends at its sleep); the last scan and the
\* clear() run without an await.
cleanup_all_proceeds ==
    /\ WF_vars(cleanup_all_loop_done \/ cleanup_all_timeout)
    /\ WF_vars(\E t \in 1..MaxScheduled : cleanup_all_cancel(t))
    /\ WF_vars(\E failing \in FailingSets : cleanup_all_finish(failing))

\* The runs in which cleanup_all is followed to its end: one output file is
\* scheduled, at once or for an hour, while the loop task, the one-shot
\* tasks, the clock and cleanup_all take their steps.
ShutdownPaths == {<<"/", "data", "sub", "c.png">>}

ShutdownKeepHours == {0, 1}

ShutdownNext ==
    \/ start
    \/ \E failing \in FailingSets : reaper_scan(failing)
    \/ reaper_exit
    \/ \E file_path \in ShutdownPaths, keep_hours \in ShutdownKeepHours :
          schedule_cleanup(file_path, keep_hours)
    \/ \E t \in 1..MaxScheduled, unlink_ok \in BOOLEAN : cleanup_immediately(t, unlink_ok)
    \/ cleanup_all_begin
    \/ cleanup_all_loop_done
    \/ cleanup_all_timeout
    \/ \E t \in 1..MaxScheduled : cleanup_all_cancel(t)
    \/ \E failing \in FailingSets : cleanup_all_finish(failing)
    \/ tick

\* C21: cleanup_all, once called, returns; when it has returned, a loop
\* task that was created before is no longer running (it is done or
\* cancelled); once the stop event is set the loop scans no more, it only
\* ends; and the timeout of wait_for leaves the loop task cancelled.
C21_CleanupAllStopsLoop ==
    /\ (ca_pc # "idle") ~> (ca_pc = "returned")
    /\ [](ca_pc = "returned" => cleanup_task \in {"none", "done", "cancelled"})
    /\ [][/\ \A failing \in FailingSets : ~(stop_event /\ reaper_scan(failing))
          /\ (stop_event /\ cleanup_task = "running" /\ cleanup_task' # "running")
                => \/ reaper_exit
                   \/ cleanup_all_timeout /\ cleanup_task' = "cancelled"]_vars

\* cleanup_all has returned after its wait for the loop task timed out:
\* the loop task had been running and is cancelled.
C21_Witness ==
    /\ ca_pc = "returned"
    /\ stop_event
    /\ cleanup_task = "cancelled"


(***************************************************************************)
(* Part 1, continued.  The streaming of a response body up to the ceiling: *)
(* download_image with bodies around max_download_size.                    *)
(***************************************************************************)

\* The URLs and bodies of the streaming runs: one safe URL, and bodies of
\* the ceiling less one chunk, the ceiling, one byte more, and more than
\* the ceiling plus a chunk.
StreamUrls == {url \in Urls : url.scheme = "http" /\ url.host = IP_PUBLIC}

StreamBodySizes ==
    { max_download_size - CHUNK_SIZE, max_download_size,
      max_download_size + 1, max_download_size + 3 * CHUNK_SIZE }

StreamNext ==
    \/ \E url \in StreamUrls, a4 \in Answers4, a6 \in Answers6, aU \in AnswersU :
          download_image_begin(url, a4, a6, aU)
    \/ \E family \in Families, d \in DefaultAnswers : client_connect(family, d)
    \/ \E size \in StreamBodySizes : respond_ok(size)
    \/ download_fail
    \/ read_chunk
    \/ read_done
    \/ \E write_ok \in BOOLEAN : handler_download_image(write_ok)

\* C12: the accumulated buffer never exceeds the ceiling by more than one
\* chunk; a body that download_image returns is no larger than the ceiling;
\* and once the buffer exceeds the ceiling the download has ended with None
\* and nothing of it is staged.
C12_BodyNeverOverCeiling ==
    /\ buffer <= max_download_size + CHUNK_SIZE
    /\ dl_result = "bytes" => buffer <= max_download_size
    /\ buffer > max_download_size
          => /\ dl_pc \in {"returned", "handled"}
             /\ dl_result = "None"
             /\ staged = {}

\* A body of more than the ceiling has been cut off and answered with None.
C12_Witness ==
    /\ dl_pc = "handled"
    /\ buffer > max_download_size
    /\ body_left > 0
    /\ dl_result = "None"
    /\ staged = {}


(***************************************************************************)
(* Part 1, continued.  _is_safe_url_with_ip as a function of the URL and   *)
(* of what getaddrinfo answers.                                            *)
(***************************************************************************)

\* What getaddrinfo may answer, with the empty list for every family.
ResolveAnswers6 == Answers6 \cup {Answer("ok", <<>>)}

ResolveAnswersU == AnswersU \cup {Answer("ok", <<>>)}

\* Hostnames that start with, or contain, a denylisted string without being
\* equal to one or ending with a denylisted suffix.
DenylistProbeHosts ==
    { <<"localhost", ".", "example", ".", "com">>,
      <<"metadata", ".", "example", ".", "com">>,
      <<"my", ".", "localhost", ".", "example", ".", "com">>,
      <<"internal", ".", "example", ".", "com">> }

ResolveUrls == Urls \cup [scheme : {"http"}, host : DenylistProbeHosts]

call_is_safe_url_with_ip(url, a4, a6, aU) ==
    /\ rs_pc = "idle"
    /\ rs_pc' = "done"
    /\ rs_url' = url
    /\ rs_answers' = <<a4, a6, aU>>
    /\ rs_result' = is_safe_url_with_ip(url, a4, a6, aU)
    /\ UNCHANGED <<net_vars, local_vars, cleanup_vars, beside_resolver_vars>>

ResolveNext ==
    \E url \in ResolveUrls, a4 \in Answers4, a6 \in ResolveAnswers6,
       aU \in ResolveAnswersU :
        call_is_safe_url_with_ip(url, a4, a6, aU)

\* The hostname of the URL is a name, not an address literal.
NonLiteralHost(url) ==
    /\ url.scheme \in {"http", "https"}
    /\ UrlHostname(url) # <<>>
    /\ ~is_ip_format(UrlHostname(url))

HasAddress(answer) == answer.kind = "ok" /\ answer.addrs # <<>>

\* The lookups, made in the order AF_INET, AF_INET6, AF_UNSPEC, end without
\* an address: one of them raises something other than gaierror (a
\* cancellation, a timeout) before any has answered with an address, or none
\* answers with an address.
LookupFails(answers) ==
    \/ answers[1].kind = "exc"
    \/ ~HasAddress(answers[1]) /\ answers[2].kind = "exc"
    \/ ~HasAddress(answers[1]) /\ ~HasAddress(answers[2]) /\ ~HasAddress(answers[3])

\* C14: for a hostname that is not an address literal, a lookup that fails
\* (error, empty result, cancellation, timeout) ends in a rejection, and a
\* target is returned only with an address that a lookup answered and that
\* _is_private_ip classified as not private.
C14_FailedLookupRejected ==
    (rs_pc = "done" /\ NonLiteralHost(rs_url)) =>
        /\ LookupFails(rs_answers) => rs_result = None
        /\ rs_result # None =>
              /\ \E i \in 1..3 :
                    /\ HasAddress(rs_answers[i])
                    /\ \E k \in 1..Len(rs_answers[i].addrs) :
                          rs_answers[i].addrs[k] = rs_result[1]
              /\ ip_address(rs_result[1]).ok
              /\ ~is_private_ip(rs_result[1])

\* A name that passed the denylist was rejected because the IPv6 lookup
\* raised after the IPv4 lookup found nothing.
C14_Witness ==
    /\ rs_pc = "done"
    /\ NonLiteralHost(rs_url)
    /\ ~matches_dangerous_pattern(UrlHostname(rs_url))
    /\ rs_answers[1] = Answer("gaierror", <<>>)
    /\ rs_answers[2].kind = "exc"
    /\ HasAddress(rs_answers[3])
    /\ rs_result = None


\* The hostname equals a denylisted name or ends with "." and a denylisted
\* name (the name without its leading dot).
EqualsOrEndsWithDenylisted(hostname) ==
    \E pattern \in DANGEROUS_PATTERNS :
        \/ hostname = pattern
        \/ EndsWith(hostname,
                    <<".">> \o (IF pattern[1] = "." THEN Tail(pattern) ELSE pattern))

\* C15: a hostname that is not an address literal is rejected by the
\* denylist step exactly when it equals a denylisted name or ends with a
\* denylisted suffix: such a hostname is rejected, and any other hostname
\* whose lookup answers with a public address is given a target.
C15_DenylistExactOrSuffixOnly ==
    (rs_pc = "done" /\ NonLiteralHost(rs_url)) =>
        /\ EqualsOrEndsWithDenylisted(UrlHostname(rs_url)) => rs_result = None
        /\ ( /\ ~EqualsOrEndsWithDenylisted(UrlHostname(rs_url))
             /\ rs_answers[1] = Answer("ok", <<IP_PUBLIC>>) )
              => rs_result = <<IP_PUBLIC, UrlHostname(rs_url)>>


(***************************************************************************)
(* Part 4.  core/image_handler.py: from an image source to its input file, *)
(* the transform, and what is done with the input and output files.        *)
(***************************************************************************)

\* PluginConfig.validate: image_size_limit_mb lies between MIN_IMAGE_SIZE_MB
\* and MAX_IMAGE_SIZE_MB.
MIN_IMAGE_SIZE_MB == 1

MAX_IMAGE_SIZE_MB == 100

\* The limits of the model, all valid.
SizeLimitsMB == {MIN_IMAGE_SIZE_MB, 10, MAX_IMAGE_SIZE_MB}

\* PluginConfig.max_image_size_bytes
max_image_size_bytes(limit_mb) == limit_mb * 1024 * 1024

\* _decode_base64_image: MAX_BASE64_LENGTH = 20 * 1024 * 1024 * 4 // 3
MAX_BASE64_LENGTH == (20 * 1024 * 1024 * 4) \div 3

\* base64.b64decode(data, validate=True) of a string of len characters
\* closed by pad "=" signs: binascii.Error for a character outside the
\* alphabet or a wrong length or padding, else 3 bytes for every 4
\* characters, less the padding.
b64decode(source) ==
    IF /\ source.alphabet_ok
       /\ source.len % 4 = 0
       /\ source.pad <= 2
       /\ source.pad <= source.len
    THEN [ok |-> TRUE, size |-> (source.len \div 4) * 3 - source.pad]
    ELSE [ok |-> FALSE, size |-> 0]

\* The size test of _decode_base64_image left out.
too_large_never(size, max_size) == FALSE

\* len(image_data) > max_size
too_large(size, max_size) == size > max_size

\* The base64 sources of the model: the number of characters after the
\* base64:// prefix, the "=" signs at its end, whether every character is
\* of the alphabet, and the digest _prepare_image_file computed.
Base64Lengths ==
    { 0, 8, 10, 1398100, 1398104, 13981016,
      MAX_BASE64_LENGTH - 2, MAX_BASE64_LENGTH, MAX_BASE64_LENGTH + 1,
      MAX_BASE64_LENGTH + 2 }

Base64Sources ==
    [ kind : {"base64"}, len : Base64Lengths, pad : {0, 1},
      alphabet_ok : BOOLEAN, hash : {"ba5eba11ba5eba11", "7e3900d1c0ffee00"} ]

\* ImageHandler._save_temp_file: the temp file, named by its prefix, is
\* written into the data directory and its path returned; None if writing
\* fails.
save_temp_file(size, prefix, write_ok) ==
    IF write_ok
    THEN /\ staged' = staged \cup {[prefix |-> prefix, size |-> size]}
         /\ h_input' = <<[prefix |-> prefix, size |-> size]>>
    ELSE /\ h_input' = None
         /\ UNCHANGED staged

\* _decode_base64_image up to the decoder: the prefix is removed and the
\* length of the string tested.
decode_base64_begin(source) ==
    /\ h_pc = "idle"
    /\ h_source' = source
    /\ IF source.len > MAX_BASE64_LENGTH
       THEN /\ h_input' = None
            /\ h_pc' = "prepared"
       ELSE /\ h_pc' = "decoding"
            /\ UNCHANGED h_input
    /\ UNCHANGED <<image_size_limit_mb, h_decoder_calls, h_data>>
    /\ UNCHANGED <<keep_files_hours, h_result, h_output, h_unlink_failed>>
    /\ UNCHANGED <<net_vars, local_vars, cleanup_vars, beside_handler_vars>>

\* decode_in_thread, run in the executor; its exception ends
\* _decode_base64_image with None.
decode_in_thread ==
    /\ h_pc = "decoding"
    /\ h_decoder_calls' = h_decoder_calls + 1
    /\ IF b64decode(h_source).ok
       THEN /\ h_data' = <<b64decode(h_source).size>>
            /\ h_pc' = "decoded"
            /\ UNCHANGED h_input
       ELSE /\ h_input' = None
            /\ h_pc' = "prepared"
            /\ UNCHANGED h_data
    /\ UNCHANGED <<image_size_limit_mb, h_source>>
    /\ UNCHANGED <<keep_files_hours, h_result, h_output, h_unlink_failed>>
    /\ UNCHANGED <<net_vars, local_vars, cleanup_vars, beside_handler_vars>>

\* _decode_base64_image after the decoder: the size test, then the temp
\* file named by the digest.
decode_base64_finish(write_ok) ==
    /\ h_pc = "decoded"
    /\ h_pc' = "prepared"
    /\ IF too_large(h_data[1], max_image_size_bytes(image_size_limit_mb))
       THEN /\ h_input' = None
            /\ UNCHANGED staged
       ELSE save_temp_file(h_data[1], h_source.hash, write_ok)
    /\ UNCHANGED <<image_size_limit_mb, h_source, h_decoder_calls, h_data>>
    /\ UNCHANGED <<keep_files_hours, h_result, h_output, h_unlink_failed>>
    /\ UNCHANGED <<dl_pc, dl_url, safe_info, resolved_ip, safe_resolutions,
                   session_open, requests, cur_host, redirects,
                   client_resolved, connected_to, body_left, buffer, dl_result>>
    /\ UNCHANGED <<cleanup_vars, local_vars, beside_handler_vars>>

MIN_KEEP_FILES_HOURS == 0
MAX_KEEP_FILES_HOURS == 168

\* The valid values of keep_files_hours the model runs with.
KeepFilesHours == {MIN_KEEP_FILES_HOURS, 1, MAX_KEEP_FILES_HOURS}

\* What download_image and get_avatar may hand back: None, or bytes of some
\* length.
FetchedData == {None} \cup {<<size>> : size \in BodySizes}

\* The numbers of the mentioned users.
AvatarNumbers == {"10001"}

\* f"avatar_{qq_number}"
AvatarPrefix(qq_number) == IF qq_number = "10001" THEN "avatar_10001" ELSE "avatar_"

\* The characters of the prefixes given to _save_temp_file.  A temp file's
\* name is its prefix followed by random characters and the extension; all
\* of them are lower case already.
PrefixChars ==
    ("downloaded" :> <<"d", "o", "w", "n", "l", "o", "a", "d", "e", "d">>) @@
    ("avatar_" :> <<"a", "v", "a", "t", "a", "r", "_">>) @@
    ("avatar_10001" :>
        <<"a", "v", "a", "t", "a", "r", "_", "1", "0", "0", "0", "1">>) @@
    ("ba5eba11ba5eba11" :>
        <<"b", "a", "5", "e", "b", "a", "1", "1",
          "b", "a", "5", "e", "b", "a", "1", "1">>) @@
    ("7e3900d1c0ffee00" :>
        <<"7", "e", "3", "9", "0", "0", "d", "1",
          "c", "0", "f", "f", "e", "e", "0", "0">>)

temp_prefixes ==
    { <<"t", "m", "p">>,
      <<"t", "e", "m", "p">>,
      <<"a", "v", "a", "t", "a", "r", "_">>,
      <<"a", "v", "a", "t", "a", "r">>,
      <<"d", "o", "w", "n", "l", "o", "a", "d", "e", "d">>,
      <<"d", "o", "w", "n", "l", "o", "a", "d", "e", "d", "_">>,
      <<"b", "a", "s", "e", "6", "4">>,
      <<"b", "a", "s", "e", "6", "4", "_">> }

\* any(filename.startswith(prefix) for prefix in temp_prefixes), decided by
\* the characters of the file's prefix.
is_temp_name(file) ==
    \E prefix \in temp_prefixes : StartsWith(PrefixChars[file.prefix], prefix)

\* ImageHandler._cleanup_input_file: a file that exists in the data
\* directory and whose name starts with a temp prefix is unlinked; an
\* exception of unlink is logged.
cleanup_input_file(file_path, unlink_ok) ==
    IF file_path \in staged /\ is_temp_name(file_path)
    THEN IF unlink_ok
         THEN /\ staged' = staged \ {file_path}
              /\ UNCHANGED h_unlink_failed
         ELSE /\ h_unlink_failed' = TRUE
              /\ UNCHANGED staged
    ELSE UNCHANGED <<staged, h_unlink_failed>>

\* The output path of _process_single_image: the data directory and the
\* name from generate_filename, which is the name of no existing file.
OutputPath == <<"/", "data", "mirror_out.png">>

\* The output file is written.
write_file(fsys, path) ==
    [q \in DOMAIN fsys \cup {path} |-> IF q = path THEN File ELSE fsys[q]]

\* _prepare_image_file for an http(s) source: _download_image stages what
\* download_image returned, unless that is None or empty.
download_image_file(image_data, write_ok) ==
    /\ h_pc = "idle"
    /\ h_pc' = "prepared"
    /\ h_source' = [kind |-> "url"]
    /\ IF image_data = None \/ image_data = <<0>>
       THEN /\ h_input' = None
            /\ UNCHANGED staged
       ELSE save_temp_file(image_data[1], "downloaded", write_ok)
    /\ UNCHANGED <<image_size_limit_mb, h_decoder_calls, h_data>>
    /\ UNCHANGED <<keep_files_hours, h_result, h_output, h_unlink_failed>>
    /\ UNCHANGED <<dl_pc, dl_url, safe_info, resolved_ip, safe_resolutions,
                   session_open, requests, cur_host, redirects,
                   client_resolved, connected_to, body_left, buffer, dl_result>>
    /\ UNCHANGED <<cleanup_vars, local_vars, beside_handler_vars>>

\* _process_avatar up to _process_single_image: the avatar of the mentioned
\* user is fetched and staged.
process_avatar(qq_number, avatar_data, write_ok) ==
    /\ h_pc = "idle"
    /\ h_pc' = "prepared"
    /\ h_source' = [kind |-> "avatar", qq |-> qq_number]
    /\ IF avatar_data = None \/ avatar_data = <<0>>
       THEN /\ h_input' = None
            /\ UNCHANGED staged
       ELSE save_temp_file(avatar_data[1], AvatarPrefix(qq_number), write_ok)
    /\ UNCHANGED <<image_size_limit_mb, h_decoder_calls, h_data>>
    /\ UNCHANGED <<keep_files_hours, h_result, h_output, h_unlink_failed>>
    /\ UNCHANGED <<dl_pc, dl_url, safe_info, resolved_ip, safe_resolutions,
                   session_open, requests, cur_host, redirects,
                   client_resolved, connected_to, body_left, buffer, dl_result>>
    /\ UNCHANGED <<cleanup_vars, local_vars, beside_handler_vars>>

\* _process_single_image that schedules the cleanup of the output before it
\* yields the result.
process_single_image_schedule_first(success, unlink_ok) ==
    /\ h_pc = "prepared"
    /\ h_input # None
    /\ h_pc' = IF success THEN "yielded" ELSE "processed"
    /\ h_result' = IF success THEN "success" ELSE "failure"
    /\ h_output' = IF success THEN <<OutputPath>> ELSE None
    /\ fs' = IF success THEN write_file(fs, OutputPath) ELSE fs
    /\ cleanup_input_file(h_input[1], unlink_ok)
    /\ IF success /\ enable_auto_cleanup
       THEN /\ enqueue_cleanup(fs', OutputPath, keep_files_hours)
            /\ ops_parity' = 1 - ops_parity
       ELSE UNCHANGED <<cleanup_queue, tasks, pending_tasks, ops_parity>>
    /\ UNCHANGED <<image_size_limit_mb, h_source, h_decoder_calls, h_data,
                   h_input, keep_files_hours>>
    /\ UNCHANGED <<dl_pc, dl_url, safe_info, resolved_ip, safe_resolutions,
                   session_open, requests, cur_host, redirects,
                   client_resolved, connected_to, body_left, buffer, dl_result>>
    /\ UNCHANGED <<enable_auto_cleanup, now, cleanup_task, stop_event, ca_pc,
                   ca_todo, ca_pending_at_call>>
    /\ UNCHANGED <<lf_pc, lf_source, lf_result, beside_handler_vars>>

\* _process_single_image up to its yield: process_image answers success
\* (the output file is written) or failure; the input file is cleaned up;
\* and the result message, or the error message, is yielded.  After the
\* error message nothing is left to run.
process_single_image(success, unlink_ok) ==
    /\ h_pc = "prepared"
    /\ h_input # None
    /\ h_pc' = IF success THEN "yielded" ELSE "processed"
    /\ h_result' = IF success THEN "success" ELSE "failure"
    /\ h_output' = IF success THEN <<OutputPath>> ELSE None
    /\ fs' = IF success THEN write_file(fs, OutputPath) ELSE fs
    /\ cleanup_input_file(h_input[1], unlink_ok)
    /\ UNCHANGED <<cleanup_queue, tasks, pending_tasks, ops_parity>>
    /\ UNCHANGED <<image_size_limit_mb, h_source, h_decoder_calls, h_data,
                   h_input, keep_files_hours>>
    /\ UNCHANGED <<dl_pc, dl_url, safe_info, resolved_ip, safe_resolutions,
                   session_open, requests, cur_host, redirects,
                   client_resolved, connected_to, body_left, buffer, dl_result>>
    /\ UNCHANGED <<enable_auto_cleanup, now, cleanup_task, stop_event, ca_pc,
                   ca_todo, ca_pending_at_call>>
    /\ UNCHANGED <<lf_pc, lf_source, lf_result, beside_handler_vars>>

\* _process_single_image after its yield, when the result message has been
\* taken: the output is scheduled for cleanup if auto cleanup is enabled.
process_single_image_resume ==
    /\ h_pc = "yielded"
    /\ h_pc' = "processed"
    /\ IF enable_auto_cleanup
       THEN /\ enqueue_cleanup(fs, OutputPath, keep_files_hours)
            /\ ops_parity' = 1 - ops_parity
       ELSE UNCHANGED <<cleanup_queue, tasks, pending_tasks, ops_parity>>
    /\ UNCHANGED <<h_result, h_output, h_unlink_failed, staged, fs>>
    /\ UNCHANGED <<image_size_limit_mb, h_source, h_decoder_calls, h_data,
                   h_input, keep_files_hours>>
    /\ UNCHANGED <<dl_pc, dl_url, safe_info, resolved_ip, safe_resolutions,
                   session_open, requests, cur_host, redirects,
                   client_resolved, connected_to, body_left, buffer, dl_result>>
    /\ UNCHANGED <<enable_auto_cleanup, now, cleanup_task, stop_event, ca_pc,
                   ca_todo, ca_pending_at_call>>
    /\ UNCHANGED <<lf_pc, lf_source, lf_result, beside_handler_vars>>

HandlerNext ==
    \/ \E source \in Base64Sources : decode_base64_begin(source)
    \/ decode_in_thread
    \/ \E write_ok \in BOOLEAN : decode_base64_finish(write_ok)
    \/ \E image_data \in FetchedData, write_ok \in BOOLEAN :
          download_image_file(image_data, write_ok)
    \/ \E qq_number \in AvatarNumbers, avatar_data \in FetchedData,
          write_ok \in BOOLEAN :
          process_avatar(qq_number, avatar_data, write_ok)
    \/ \E success \in BOOLEAN, unlink_ok \in BOOLEAN :
          process_single_image(success, unlink_ok)
    \/ process_single_image_resume

\* C11: a base64 source whose string is longer than MAX_BASE64_LENGTH is
\* answered with None without the decoder having been called; and one that
\* was decoded to more bytes than the configured image-size limit is
\* answered with None with no temp file written.
C11_Base64Budgets ==
    h_source.kind = "base64" =>
        /\ h_source.len > MAX_BASE64_LENGTH
              => /\ h_decoder_calls = 0
                 /\ h_pc = "prepared"
                 /\ h_input = None
                 /\ staged = {}
        /\ (/\ h_pc = "prepared"
            /\ h_data # None
            /\ h_data[1] > image_size_limit_mb * 1024 * 1024)
              => /\ h_input = None
                 /\ staged = {}

\* A payload decoded to more bytes than the limit has been rejected.
C11_Witness ==
    /\ h_source.kind = "base64"
    /\ h_pc = "prepared"
    /\ h_decoder_calls = 1
    /\ h_data # None
    /\ h_data[1] > image_size_limit_mb * 1024 * 1024
    /\ h_input = None
    /\ staged = {}


\* NetworkUtils.__init__: the ceiling is the configuration's
\* max_image_size_bytes when a configuration is passed, 10 MB otherwise.
\* A configuration is <<image_size_limit_mb>>, no configuration is None.
NetworkUtils_max_download_size(config) ==
    IF config # None
    THEN max_image_size_bytes(config[1])
    ELSE 10 * 1024 * 1024

\* ImageHandler.__init__ builds NetworkUtils(timeout=...): no configuration.
network_utils_config == None

\* C13: the ceiling of the handler's URL download is the configured
\* image_size_limit_mb * 1024 * 1024, and a body that the download returns
\* is no larger than that.
C13_CeilingIsConfiguredLimit ==
    /\ dl_result = "bytes"
          => buffer <= image_size_limit_mb * 1024 * 1024
    /\ dl_pc # "idle"
          => /\ max_download_size = image_size_limit_mb * 1024 * 1024
             /\ NetworkUtils_max_download_size(network_utils_config)
                   = image_size_limit_mb * 1024 * 1024


\* C16: once _process_single_image has finished with the temp input file
\* of a URL, base64 or avatar source, that file no longer exists, whether
\* the transform succeeded or failed (unlink itself not having raised).
C16_TempInputRemoved ==
    ( /\ h_pc = "processed"
      /\ h_source.kind \in {"url", "base64", "avatar"}
      /\ ~h_unlink_failed )
        => h_input[1] \notin staged

\* The path is in the cleanup queue or has a pending one-shot task.
Scheduled(path) ==
    \/ \E i \in 1..Len(cleanup_queue) : cleanup_queue[i].path = path
    \/ \E t \in pending_tasks : tasks[t].path = path

\* C17 as stated: after _process_single_image succeeded, the output path is
\* in the cleanup queue or has a pending immediate-deletion task.
C17_OutputAlwaysScheduled ==
    (h_pc = "processed" /\ h_result = "success") => Scheduled(h_output[1])

\* C17: after _process_single_image succeeded with auto cleanup enabled, the
\* output path is in the cleanup queue (keep_files_hours > 0) or has a
\* pending immediate-deletion task (keep_files_hours = 0); with auto cleanup
\* disabled it is in neither.
C17_OutputScheduledWhenEnabled ==
    (h_pc = "processed" /\ h_result = "success") =>
        /\ exists(fs, h_output[1])
        /\ IF enable_auto_cleanup
           THEN IF keep_files_hours > 0
                THEN \E i \in 1..Len(cleanup_queue) :
                        cleanup_queue[i].path = h_output[1]
                ELSE \E t \in pending_tasks : tasks[t].path = h_output[1]
           ELSE ~Scheduled(h_output[1])

\* An output was written with keep_files_hours = 0 and has its pending task.
C17_Witness ==
    /\ h_pc = "processed"
    /\ h_result = "success"
    /\ enable_auto_cleanup
    /\ keep_files_hours = 0
    /\ \E t \in pending_tasks : tasks[t].path = h_output[1]

\* C27: the cleanup queue, the one-shot tasks and the pending set change
\* only in the step of _process_single_image that follows its yield of the
\* result message, which is reached only after process_image answered
\* success; a source that gave no input file, a payload over a limit and a
\* transform that failed leave all three as they were.
C27_ScheduledOnlyAfterResult ==
    [][ (\/ cleanup_queue' # cleanup_queue
         \/ tasks' # tasks
         \/ pending_tasks' # pending_tasks)
           => /\ h_pc = "yielded"
              /\ h_result = "success"
              /\ h_output = <<OutputPath>>
              /\ exists(fs, OutputPath)
              /\ h_pc' = "processed" ]_vars

\* An output was written, its result yielded, and it was then queued for
\* keep_files_hours = 1.
C27_Witness ==
    /\ h_pc = "processed"
    /\ h_result = "success"
    /\ enable_auto_cleanup
    /\ keep_files_hours = 1
    /\ Len(cleanup_queue) = 1
    /\ cleanup_queue[1].path = OutputPath
    /\ tasks = <<>>


(***************************************************************************)
(* Part 5.  image_processor.py: the frames of an animated image.           *)
(***************************************************************************)

MIN_GIF_FRAMES == 10
MAX_GIF_FRAMES == 1000
MIN_MAX_TOTAL_PIXELS == 500 * 500
MAX_MAX_TOTAL_PIXELS == 10000 * 10000

\* Valid values of max_gif_frames and max_total_pixels (the lowest, the
\* default, and for the pixels the highest).
GifFrameCaps == {MIN_GIF_FRAMES, 200}

GifPixelCaps == {MIN_MAX_TOTAL_PIXELS, 4000 * 4000, MAX_MAX_TOTAL_PIXELS}

\* The animated images given to _process_gif: the number of frames and the
\* size of the image, which is the size of each frame.
GifFrameCounts == {1, 10, 11, 200, 201}

GifSizes ==
    { <<100, 100>>, <<300, 400>>, <<500, 500>>, <<501, 500>>, <<2000, 2000>>,
      <<10000, 10000>>, <<10001, 10000>> }

\* MirrorProcessor._check_image_size
check_image_size(size) == ~(size[1] * size[2] > 10000 * 10000)

\* frame_count > MAX_FRAMES
too_many_frames(frame_count, max_frames) == frame_count > max_frames

\* The pixel test applied to the single frame instead of the frames so far.
too_many_pixels_per_frame(frame_count, frame_pixels, max_total) ==
    frame_pixels > max_total

\* total_pixels = frame_count * frame_pixels; total_pixels > MAX_TOTAL_PIXELS
too_many_pixels(frame_count, frame_pixels, max_total) ==
    frame_count * frame_pixels > max_total

\* process_gif_in_thread up to the loop: the image is opened and its size
\* checked.
process_gif_begin(nframes, size) ==
    /\ g_pc = "idle"
    /\ g_nframes' = nframes
    /\ g_size' = size
    /\ IF check_image_size(size)
       THEN /\ g_pc' = "loop"
            /\ UNCHANGED g_result
       ELSE /\ g_pc' = "done"
            /\ g_result' = "image_too_large"
    /\ UNCHANGED <<max_gif_frames, max_total_pixels, g_frame_count, g_mirrored,
                   g_output_written>>
    /\ UNCHANGED <<net_vars, local_vars, cleanup_vars, beside_gif_vars>>

\* One round of the loop over ImageSequence.Iterator(img): the frame is
\* counted, the two limits are tested, and the frame is mirrored and
\* appended to frames.
gif_frame ==
    /\ g_pc = "loop"
    /\ g_frame_count < g_nframes
    /\ g_frame_count' = g_frame_count + 1
    /\ IF too_many_frames(g_frame_count', max_gif_frames)
       THEN /\ g_pc' = "done"
            /\ g_result' = "too_many_frames"
            /\ UNCHANGED g_mirrored
       ELSE IF too_many_pixels(g_frame_count', g_size[1] * g_size[2],
                               max_total_pixels)
            THEN /\ g_pc' = "done"
                 /\ g_result' = "too_many_pixels"
                 /\ UNCHANGED g_mirrored
            ELSE /\ g_mirrored' = g_mirrored + 1
                 /\ UNCHANGED <<g_pc, g_result>>
    /\ UNCHANGED <<max_gif_frames, max_total_pixels, g_nframes, g_size,
                   g_output_written>>
    /\ UNCHANGED <<net_vars, local_vars, cleanup_vars, beside_gif_vars>>

\* After the loop: the frames are saved to the output path.  A save that
\* raises may or may not have created the file.
gif_save(save_ok, created) ==
    /\ g_pc = "loop"
    /\ g_frame_count = g_nframes
    /\ g_pc' = "done"
    /\ IF g_mirrored > 0
       THEN IF save_ok
            THEN /\ g_output_written' = TRUE
                 /\ g_result' = "ok"
            ELSE /\ g_output_written' = created
                 /\ g_result' = "exception"
       ELSE /\ g_result' = "no_frames"
            /\ UNCHANGED g_output_written
    /\ UNCHANGED <<max_gif_frames, max_total_pixels, g_nframes, g_size,
                   g_frame_count, g_mirrored>>
    /\ UNCHANGED <<net_vars, local_vars, cleanup_vars, beside_gif_vars>>

\* Any exception inside the loop (a frame that cannot be decoded, memory)
\* ends _process_gif with a failure.
gif_exception ==
    /\ g_pc = "loop"
    /\ g_pc' = "done"
    /\ g_result' = "exception"
    /\ UNCHANGED <<max_gif_frames, max_total_pixels, g_nframes, g_size,
                   g_frame_count, g_mirrored, g_output_written>>
    /\ UNCHANGED <<net_vars, local_vars, cleanup_vars, beside_gif_vars>>

GifNext ==
    \/ \E nframes \in GifFrameCounts, size \in GifSizes :
          process_gif_begin(nframes, size)
    \/ gif_frame
    \/ \E save_ok \in BOOLEAN, created \in BOOLEAN : gif_save(save_ok, created)
    \/ gif_exception

\* C18: every mirrored frame passed both tests (its 1-based index is at most
\* max_gif_frames and index * frame pixels is at most max_total_pixels);
\* when a test fails the processing has stopped at that frame with the
\* rejection reason, the frames before it are the only ones mirrored, and no
\* output file is written; a success has mirrored every frame.
C18_FramesWithinCaps ==
    LET frame_pixels == g_size[1] * g_size[2]
    IN  /\ g_mirrored <= max_gif_frames
        /\ g_mirrored > 0 => g_mirrored * frame_pixels <= max_total_pixels
        /\ g_pc = "loop" => g_mirrored = g_frame_count
        /\ g_result = "too_many_frames" =>
              /\ g_pc = "done"
              /\ g_frame_count > max_gif_frames
              /\ g_mirrored = g_frame_count - 1
              /\ ~g_output_written
        /\ g_result = "too_many_pixels" =>
              /\ g_pc = "done"
              /\ g_frame_count <= max_gif_frames
              /\ g_frame_count * frame_pixels > max_total_pixels
              /\ g_mirrored = g_frame_count - 1
              /\ ~g_output_written
        /\ g_result = "ok" =>
              /\ g_mirrored = g_nframes
              /\ g_output_written

\* The third frame of an image was refused for the total of the pixels,
\* after two frames had been mirrored.
C18_Witness ==
    /\ g_pc = "done"
    /\ g_result = "too_many_pixels"
    /\ g_mirrored = 2
    /\ g_frame_count = 3
    /\ ~g_output_written


(***************************************************************************)
(* Part 6.  image_processor.py: _apply_mirror on the pixels of an image.   *)
(* An image is its width, its height and its pixels px[<<x, y>>], with x   *)
(* from the left and y from the top, both from 0.                          *)
(***************************************************************************)

\* The largest width and height of the images of the model.
MaxDim == 4

Coords(width, height) == (0..(width - 1)) \X (0..(height - 1))

\* The pixel of value zero; the other pixel values of the model are the
\* pairs <<x, y>> of the places they come from.
ZeroPixel == <<-1, -1>>

\* Image.new(mode, (width, height)): every pixel is zero.
Image_new(width, height) ==
    [width |-> width, height |-> height,
     px |-> [c \in Coords(width, height) |-> ZeroPixel]]

\* image.crop((left, upper, right, lower)); pixels outside the image are
\* zero.
crop(image, left, upper, right, lower) ==
    [width |-> right - left, height |-> lower - upper,
     px |-> [c \in Coords(right - left, lower - upper) |->
                IF <<c[1] + left, c[2] + upper>> \in DOMAIN image.px
                THEN image.px[<<c[1] + left, c[2] + upper>>]
                ELSE ZeroPixel]]

\* image.transpose(Image.FLIP_LEFT_RIGHT)
FLIP_LEFT_RIGHT(image) ==
    [image EXCEPT !.px = [c \in DOMAIN image.px |->
                             image.px[<<image.width - 1 - c[1], c[2]>>]]]

\* image.transpose(Image.FLIP_TOP_BOTTOM)
FLIP_TOP_BOTTOM(image) ==
    [image EXCEPT !.px = [c \in DOMAIN image.px |->
                             image.px[<<c[1], image.height - 1 - c[2]>>]]]

\* result.paste(piece, (x, y)): the piece's pixels replace those of the
\* result from (x, y) on, as far as they fall inside the result.
paste(result, piece, x, y) ==
    [result EXCEPT !.px = [c \in DOMAIN result.px |->
                              IF <<c[1] - x, c[2] - y>> \in DOMAIN piece.px
                              THEN piece.px[<<c[1] - x, c[2] - y>>]
                              ELSE result.px[c]]]

\* The half rounded down.
half_floor(d) == d \div 2

\* (d + 1) // 2: the half rounded up.
half(d) == (d + 1) \div 2

\* MirrorProcessor._apply_mirror
apply_mirror(image, mode) ==
    LET width  == image.width
        height == image.height
        result == Image_new(width, height)
    IN  IF mode = "left_to_right"
        THEN LET half_width == half(width)
                 other_half == width - half_width
                 left_half  == crop(image, 0, 0, half_width, height)
                 right_half == FLIP_LEFT_RIGHT(left_half)
                 pasted     == paste(result, left_half, 0, 0)
             IN  IF other_half > 0
                 THEN paste(pasted,
                            crop(right_half, right_half.width - other_half, 0,
                                 right_half.width, height),
                            half_width, 0)
                 ELSE pasted
        ELSE IF mode = "right_to_left"
        THEN LET half_width == half(width)
                 other_half == width - half_width
                 right_half == crop(image, other_half, 0, width, height)
                 left_half  == FLIP_LEFT_RIGHT(right_half)
                 pasted     == IF other_half > 0
                               THEN paste(result,
                                          crop(left_half, 0, 0, other_half, height),
                                          0, 0)
                               ELSE result
             IN  paste(pasted, right_half, other_half, 0)
        ELSE IF mode = "top_to_bottom"
        THEN LET half_height == half(height)
                 other_half  == height - half_height
                 top_half    == crop(image, 0, 0, width, half_height)
                 bottom_half == FLIP_TOP_BOTTOM(top_half)
                 pasted      == paste(result, top_half, 0, 0)
             IN  IF other_half > 0
                 THEN paste(pasted,
                            crop(bottom_half, 0, bottom_half.height - other_half,
                                 width, bottom_half.height),
                            0, half_height)
                 ELSE pasted
        ELSE IF mode = "bottom_to_top"
        THEN LET half_height == half(height)
                 other_half  == height - half_height
                 bottom_half == crop(image, 0, other_half, width, height)
                 top_half    == FLIP_TOP_BOTTOM(bottom_half)
                 pasted      == IF other_half > 0
                                THEN paste(result,
                                           crop(top_half, 0, 0, width, other_half),
                                           0, 0)
                                ELSE result
             IN  paste(pasted, bottom_half, 0, other_half)
        ELSE image

MirrorModes == {"left_to_right", "right_to_left", "top_to_bottom", "bottom_to_top"}

\* The modes given to _apply_mirror: the four modes and one it does not know.
Modes == MirrorModes \cup {"unknown"}

\* The images given to _apply_mirror: one of every size, all of whose pixels
\* differ (the pixel at <<x, y>> has the value <<x, y>>), and one of every
\* size whose pixels are all zero.
Images ==
    { [width |-> w, height |-> h, px |-> [c \in Coords(w, h) |-> c]] :
         w \in 1..MaxDim, h \in 1..MaxDim }
    \cup
    { [width |-> w, height |-> h, px |-> [c \in Coords(w, h) |-> ZeroPixel]] :
         w \in 1..MaxDim, h \in 1..MaxDim }

call_apply_mirror ==
    /\ m_pc = "idle"
    /\ m_pc' = "done"
    /\ m_result' = apply_mirror(m_image, m_mode)
    /\ UNCHANGED <<m_image, m_mode>>
    /\ UNCHANGED <<net_vars, local_vars, cleanup_vars, beside_mirror_vars>>

MirrorNext == call_apply_mirror

\* C19: for each of the four modes and every size, _apply_mirror returns an
\* image of the same size in which the source half (the half rounded up, on
\* the side the mode names first) equals the input's and which is
\* symmetric along the mirror axis: the pixel at p equals the pixel at
\* d - 1 - p.
C19_MirrorSymmetric ==
    (m_pc = "done" /\ m_mode \in MirrorModes) =>
        LET w == m_image.width
            h == m_image.height
        IN  /\ m_result.width = w
            /\ m_result.height = h
            /\ DOMAIN m_result.px = Coords(w, h)
            /\ \A c \in Coords(w, h) :
                  /\ m_mode = "left_to_right" /\ c[1] < (w + 1) \div 2
                        => m_result.px[c] = m_image.px[c]
                  /\ m_mode = "right_to_left" /\ c[1] >= w - (w + 1) \div 2
                        => m_result.px[c] = m_image.px[c]
                  /\ m_mode = "top_to_bottom" /\ c[2] < (h + 1) \div 2
                        => m_result.px[c] = m_image.px[c]
                  /\ m_mode = "bottom_to_top" /\ c[2] >= h - (h + 1) \div 2
                        => m_result.px[c] = m_image.px[c]
                  /\ m_mode \in {"left_to_right", "right_to_left"}
                        => m_result.px[c] = m_result.px[<<w - 1 - c[1], c[2]>>]
                  /\ m_mode \in {"top_to_bottom", "bottom_to_top"}
                        => m_result.px[c] = m_result.px[<<c[1], h - 1 - c[2]>>]

\* An image of odd width, all of whose pixels differ, was mirrored from the
\* right to the left: its first column is now its last one.
C19_Witness ==
    /\ m_pc = "done"
    /\ m_mode = "right_to_left"
    /\ m_image.width = 3
    /\ m_image.height = 2
    /\ m_image.px[<<2, 1>>] = <<2, 1>>
    /\ m_result.px[<<0, 1>>] = <<2, 1>>
    /\ m_result.px[<<1, 1>>] = <<1, 1>>


(***************************************************************************)
(* Part 7.  main.py: the lazy initialisation of the plugin, which starts   *)
(* the cleanup manager.                                                    *)
(***************************************************************************)

\* The requests that may be in _ensure_initialized at the same time.
MaxRequests == 3

Requests == 1..MaxRequests

\* _ensure_initialized up to its await: nothing to do once _initialized is
\* set; a task that is not done is awaited; otherwise a task running
\* _do_initialize is created, stored in _init_task and awaited.
ensure_initialized_enter(r) ==
    /\ req_pc[r] = "idle"
    /\ IF initialized
       THEN /\ req_pc' = [req_pc EXCEPT ![r] = "done"]
            /\ UNCHANGED <<init_task, init_tasks, req_task>>
       ELSE IF init_task # 0 /\ init_tasks[init_task] # "done"
            THEN /\ req_pc' = [req_pc EXCEPT ![r] = "await"]
                 /\ req_task' = [req_task EXCEPT ![r] = init_task]
                 /\ UNCHANGED <<init_task, init_tasks>>
            ELSE /\ init_tasks' = Append(init_tasks, "created")
                 /\ init_task' = Len(init_tasks) + 1
                 /\ req_pc' = [req_pc EXCEPT ![r] = "await"]
                 /\ req_task' = [req_task EXCEPT ![r] = Len(init_tasks) + 1]
    /\ UNCHANGED <<initialized, loops_created, init_failed>>
    /\ UNCHANGED <<net_vars, local_vars, cleanup_vars, beside_init_vars>>

\* What becomes of one initialisation: start() returns; start() raises and
\* ImageHandler.initialize catches and logs the exception; or an exception
\* leaves ImageHandler.initialize and _do_initialize catches it.
InitOutcomes == {"ok", "start raised", "initialize raised"}

\* A task runs _do_initialize: ImageHandler.initialize awaits
\* CleanupManager.start, which has no await of its own.  An exception is
\* caught by ImageHandler.initialize or by _do_initialize, which sets
\* _initialized to False; the task ends without an exception either way.
do_initialize(t, outcome) ==
    /\ t \in 1..Len(init_tasks)
    /\ init_tasks[t] = "created"
    /\ init_tasks' = [init_tasks EXCEPT ![t] = "done"]
    /\ IF outcome = "ok"
       THEN /\ create_cleanup_task
            /\ UNCHANGED <<initialized, init_failed>>
       ELSE /\ init_failed' = init_failed \cup {t}
            /\ initialized' = IF outcome = "initialize raised"
                              THEN FALSE
                              ELSE initialized
            /\ UNCHANGED <<cleanup_task, loops_created>>
    /\ UNCHANGED <<init_task, req_pc, req_task>>
    /\ UNCHANGED <<ops_parity, enable_auto_cleanup, now, cleanup_queue, tasks,
                   pending_tasks, stop_event, ca_pc, ca_todo,
                   ca_pending_at_call, fs>>
    /\ UNCHANGED <<net_vars, lf_pc, lf_source, lf_result, beside_init_vars>>

\* _ensure_initialized after its await: the awaited task is done, and
\* _initialized is set.
ensure_initialized_resume(r) ==
    /\ req_pc[r] = "await"
    /\ init_tasks[req_task[r]] = "done"
    /\ req_pc' = [req_pc EXCEPT ![r] = "done"]
    /\ initialized' = TRUE
    /\ UNCHANGED <<init_task, init_tasks, req_task, loops_created, init_failed>>
    /\ UNCHANGED <<net_vars, local_vars, cleanup_vars, beside_init_vars>>

InitNext ==
    \/ \E r \in Requests : ensure_initialized_enter(r)
    \/ \E t \in 1..MaxRequests, outcome \in InitOutcomes : do_initialize(t, outcome)
    \/ \E r \in Requests : ensure_initialized_resume(r)

\* start() has been called and has returned: a _do_initialize task has run
\* without an exception.
StartCalls ==
    Cardinality({t \in 1..Len(init_tasks) :
                    init_tasks[t] = "done" /\ t \notin init_failed})

\* C20: no reaper loop task exists before start() has been called (none
\* after construction), and however many times start() is called, from
\* requests racing through the lazy initialisation, at most one loop task is
\* ever created, so at most one is running.
C20_AtMostOneReaper ==
    /\ loops_created <= 1
    /\ StartCalls = 0 => (cleanup_task = "none" /\ loops_created = 0)
    /\ cleanup_task # "none" <=> loops_created = 1
    /\ (StartCalls > 0 /\ enable_auto_cleanup) => cleanup_task = "running"
    /\ ~enable_auto_cleanup => cleanup_task = "none"

\* Three requests raced: each found the task before it done and
\* _initialized not yet set, so start() was called three times; one loop
\* task runs.
C20_Witness ==
    /\ StartCalls = MaxRequests
    /\ enable_auto_cleanup
    /\ cleanup_task = "running"
    /\ loops_created = 1

\* C29: when the initialisation a request awaited has failed with an
\* exception, _initialized is False when _ensure_initialized returns to
\* that request (so that the next request initialises again).
C29_FailedInitStaysUninitialized ==
    [][ \A r \in Requests :
          ( /\ req_pc[r] = "await"
            /\ req_pc'[r] = "done"
            /\ req_task[r] \in init_failed )
              => ~initialized' ]_vars


(***************************************************************************)
(* Part 8.  core/avatar_service.py and NetworkUtils.get_qq_avatar: the     *)
(* requests made for the avatar of a user.                                 *)
(***************************************************************************)

\* The endpoints AvatarService.get_avatar tries, in order (their hosts).
AvatarService_urls == <<"q1.qlogo.cn", "q2.qlogo.cn", "q4.qlogo.cn">>

\* The endpoints NetworkUtils.get_qq_avatar tries, in order.
avatar_urls == <<"q1.qlogo.cn", "q2.qlogo.cn", "q4.qlogo.cn", "q.qlogo.cn">>

\* _download_with_retry(url, retries=2)
RETRIES == 2

\* What one request may end in: status 200 with data, status 200 with an
\* empty body, status 404, another status, or an exception (a timeout, a
\* connection error).
Outcomes == {"200", "200 empty", "404", "500", "error"}

\* 0.5 * (2 ** attempt), in half seconds.
backoff(attempt) == 2 ^ attempt

\* The loop of get_avatar / get_qq_avatar goes on to the next URL, or ends
\* with None after the last.
next_url(urls) ==
    IF av_url < Len(urls)
    THEN /\ av_url' = av_url + 1
         /\ av_attempt' = 0
         /\ av_sleeps' = <<>>
         /\ UNCHANGED <<av_pc, av_result>>
    ELSE /\ av_pc' = "done"
         /\ UNCHANGED <<av_url, av_attempt, av_sleeps, av_result>>

\* ImageHandler._process_avatar calls AvatarService.get_avatar.
get_avatar_begin ==
    /\ av_pc = "idle"
    /\ av_pc' = "request"
    /\ av_via' = "AvatarService"
    /\ av_url' = 1
    /\ UNCHANGED <<av_attempt, av_attempts, av_last, av_sleeps, av_result>>
    /\ UNCHANGED <<net_vars, local_vars, cleanup_vars, beside_avatar_vars>>

\* One round of get_avatar's loop: _download_avatar makes one request;
\* status 200 returns the body, anything else (an exception included)
\* returns None; get_avatar returns data that is not empty and otherwise
\* goes on to the next URL.
download_avatar(outcome) ==
    /\ av_pc = "request"
    /\ av_via = "AvatarService"
    /\ av_attempts' = [av_attempts EXCEPT ![av_url] = @ + 1]
    /\ av_last' = [av_last EXCEPT ![av_url] = outcome]
    /\ IF outcome = "200"
       THEN /\ av_result' = "data"
            /\ av_pc' = "done"
            /\ UNCHANGED <<av_url, av_attempt, av_sleeps>>
       ELSE next_url(AvatarService_urls)
    /\ UNCHANGED av_via
    /\ UNCHANGED <<net_vars, local_vars, cleanup_vars, beside_avatar_vars>>

\* NetworkUtils.get_qq_avatar is called.
get_qq_avatar_begin ==
    /\ av_pc = "idle"
    /\ av_pc' = "request"
    /\ av_via' = "NetworkUtils"
    /\ av_url' = 1
    /\ UNCHANGED <<av_attempt, av_attempts, av_last, av_sleeps, av_result>>
    /\ UNCHANGED <<net_vars, local_vars, cleanup_vars, beside_avatar_vars>>

\* One round of the for loop of _download_with_retry: status 200 returns
\* the body and status 404 returns None; another status goes to the next
\* attempt at once; an exception sleeps 0.5 * 2 ** attempt seconds first.
\* After attempt retries the function returns None.  get_qq_avatar returns
\* data that is not empty and otherwise goes on to the next URL.
download_with_retry(outcome) ==
    /\ av_pc = "request"
    /\ av_via = "NetworkUtils"
    /\ av_attempts' = [av_attempts EXCEPT ![av_url] = @ + 1]
    /\ av_last' = [av_last EXCEPT ![av_url] = outcome]
    /\ IF outcome = "200"
       THEN /\ av_result' = "data"
            /\ av_pc' = "done"
            /\ UNCHANGED <<av_url, av_attempt, av_sleeps>>
       ELSE IF outcome \in {"200 empty", "404"} \/ av_attempt = RETRIES
            THEN next_url(avatar_urls)
       ELSE /\ av_attempt' = av_attempt + 1
            /\ av_sleeps' = IF outcome = "error"
                            THEN Append(av_sleeps, backoff(av_attempt))
                            ELSE av_sleeps
            /\ UNCHANGED <<av_pc, av_url, av_result>>
    /\ UNCHANGED av_via
    /\ UNCHANGED <<net_vars, local_vars, cleanup_vars, beside_avatar_vars>>

AvatarNext ==
    \/ get_avatar_begin
    \/ \E outcome \in Outcomes : download_avatar(outcome)
    \/ get_qq_avatar_begin
    \/ \E outcome \in Outcomes : download_with_retry(outcome)

\* C23: in the fetch _process_avatar makes (AvatarService.get_avatar), no
\* endpoint gets more than retries + 1 = 3 requests; an endpoint whose
\* requests ended in exceptions is left for the next only after retries + 1
\* requests, with backoff sleeps in between; and an endpoint that answered
\* 404 gets no further request.
C23_FailingEndpointRetried ==
    /\ [](av_via = "AvatarService" =>
            \A i \in 1..Len(AvatarService_urls) :
               /\ av_attempts[i] <= RETRIES + 1
               /\ (av_last[i] = "error" /\ (av_url > i \/ av_pc = "done"))
                     => av_attempts[i] = RETRIES + 1)
    /\ [][av_via = "AvatarService" =>
             \A i \in 1..Len(AvatarService_urls) :
                av_last[i] = "404" => av_attempts'[i] = av_attempts[i]]_vars


(***************************************************************************)
(* Part 9.  config.py: PluginConfig.load_from_dict and validate.           *)
(*                                                                         *)
(* A number is held in tenths, so that 100.5 and 100 differ; a supplied    *)
(* value is an int, a float, a str, None, float("inf") or float("nan").    *)
(***************************************************************************)

MIN_GIF_SIZE_MB == 1
MAX_GIF_SIZE_MB == 200
MIN_PROCESSING_TIMEOUT == 5
MAX_PROCESSING_TIMEOUT == 300
MIN_OUTPUT_QUALITY == 1
MAX_OUTPUT_QUALITY == 100
MIN_RATE_LIMIT == 0
MAX_RATE_LIMIT == 60
MIN_CLEANUP_TIMEOUT == 1
MAX_CLEANUP_TIMEOUT == 30
MIN_CLEANUP_LOOP_INTERVAL == 60
MAX_CLEANUP_LOOP_INTERVAL == 1800
MIN_PRECHECK_FILE_SIZE_MB == 10
MAX_PRECHECK_FILE_SIZE_MB == 500
MIN_MAX_DIMENSION == 512
MAX_MAX_DIMENSION == 8192

\* The bounded numeric options of PluginConfig.
Options ==
    { "image_size_limit_mb", "gif_size_limit_mb", "precheck_file_size_mb",
      "max_compression_dimension", "max_total_pixels", "cleanup_loop_interval",
      "processing_timeout", "output_quality", "keep_files_hours",
      "rate_limit_per_minute", "max_gif_frames", "cleanup_timeout" }

\* The range validate() tests each option against.
MIN_OF ==
    ("image_size_limit_mb" :> MIN_IMAGE_SIZE_MB) @@
    ("gif_size_limit_mb" :> MIN_GIF_SIZE_MB) @@
    ("precheck_file_size_mb" :> MIN_PRECHECK_FILE_SIZE_MB) @@
    ("max_compression_dimension" :> MIN_MAX_DIMENSION) @@
    ("max_total_pixels" :> MIN_MAX_TOTAL_PIXELS) @@
    ("cleanup_loop_interval" :> MIN_CLEANUP_LOOP_INTERVAL) @@
    ("processing_timeout" :> MIN_PROCESSING_TIMEOUT) @@
    ("output_quality" :> MIN_OUTPUT_QUALITY) @@
    ("keep_files_hours" :> MIN_KEEP_FILES_HOURS) @@
    ("rate_limit_per_minute" :> MIN_RATE_LIMIT) @@
    ("max_gif_frames" :> MIN_GIF_FRAMES) @@
    ("cleanup_timeout" :> MIN_CLEANUP_TIMEOUT)

MAX_OF ==
    ("image_size_limit_mb" :> MAX_IMAGE_SIZE_MB) @@
    ("gif_size_limit_mb" :> MAX_GIF_SIZE_MB) @@
    ("precheck_file_size_mb" :> MAX_PRECHECK_FILE_SIZE_MB) @@
    ("max_compression_dimension" :> MAX_MAX_DIMENSION) @@
    ("max_total_pixels" :> MAX_MAX_TOTAL_PIXELS) @@
    ("cleanup_loop_interval" :> MAX_CLEANUP_LOOP_INTERVAL) @@
    ("processing_timeout" :> MAX_PROCESSING_TIMEOUT) @@
    ("output_quality" :> MAX_OUTPUT_QUALITY) @@
    ("keep_files_hours" :> MAX_KEEP_FILES_HOURS) @@
    ("rate_limit_per_minute" :> MAX_RATE_LIMIT) @@
    ("max_gif_frames" :> MAX_GIF_FRAMES) @@
    ("cleanup_timeout" :> MAX_CLEANUP_TIMEOUT)

\* The type safe_get converts each option to.
type_of(option) == IF option = "cleanup_timeout" THEN "float" ELSE "int"

\* A number of the program, in tenths; float("nan"); float("inf").
Num(tenths) == [kind |-> "num", tenths |-> tenths]
NaN == [kind |-> "nan", tenths |-> 0]
Inf == [kind |-> "inf", tenths |-> 0]

\* PluginConfig(): the defaults of the dataclass.
PluginConfig ==
    ("image_size_limit_mb" :> Num(10 * 10)) @@
    ("gif_size_limit_mb" :> Num(10 * 15)) @@
    ("precheck_file_size_mb" :> Num(10 * 100)) @@
    ("max_compression_dimension" :> Num(10 * 2048)) @@
    ("max_total_pixels" :> Num(10 * (4000 * 4000))) @@
    ("cleanup_loop_interval" :> Num(10 * 300)) @@
    ("processing_timeout" :> Num(10 * 30)) @@
    ("output_quality" :> Num(10 * 85)) @@
    ("keep_files_hours" :> Num(10 * 1)) @@
    ("rate_limit_per_minute" :> Num(10 * 10)) @@
    ("max_gif_frames" :> Num(10 * 200)) @@
    ("cleanup_timeout" :> Num(50))

\* The values a configuration dictionary may hold.
IntV(n) == [kind |-> "int", n |-> n, text |-> <<>>]
FloatV(tenths) == [kind |-> "float", n |-> tenths, text |-> <<>>]
StrV(text) == [kind |-> "str", n |-> 0, text |-> text]
NoneV == [kind |-> "None", n |-> 0, text |-> <<>>]
InfV == [kind |-> "inf", n |-> 0, text |-> <<>>]
NanV == [kind |-> "nan", n |-> 0, text |-> <<>>]

DigitChars == <<"0", "1", "2", "3", "4", "5", "6", "7", "8", "9">>

DigitValue(char) == (CHOOSE k \in 1..10 : DigitChars[k] = char) - 1

IsDigit(char) == \E k \in 1..10 : DigitChars[k] = char

\* str(n)
RECURSIVE DigitsOf(_)
DigitsOf(n) ==
    IF n < 10 THEN <<DigitChars[n + 1]>>
    ELSE Append(DigitsOf(n \div 10), DigitChars[(n % 10) + 1])

str(n) == IF n < 0 THEN <<"-">> \o DigitsOf(-n) ELSE DigitsOf(n)

\* The value of a sequence of digits.
RECURSIVE DigitsValue(_)
DigitsValue(text) ==
    IF text = <<>> THEN 0
    ELSE 10 * DigitsValue(SubSeq(text, 1, Len(text) - 1)) + DigitValue(text[Len(text)])

IsDigits(text) == text # <<>> /\ \A k \in 1..Len(text) : IsDigit(text[k])

\* An optional sign and digits: what int(str) reads.
IsIntegerText(text) ==
    IF text # <<>> /\ Head(text) = "-" THEN IsDigits(Tail(text)) ELSE IsDigits(text)

IntegerTextTenths(text) ==
    IF Head(text) = "-" THEN -(10 * DigitsValue(Tail(text))) ELSE 10 * DigitsValue(text)

\* Digits, a point and one digit: read by float(str), not by int(str).
IsFractionText(text) ==
    /\ Len(text) >= 3
    /\ text[Len(text) - 1] = "."
    /\ IsDigit(text[Len(text)])
    /\ IsIntegerText(SubSeq(text, 1, Len(text) - 2))

FractionTextTenths(text) ==
    LET whole == SubSeq(text, 1, Len(text) - 2)
        digit == DigitValue(text[Len(text)])
    IN  IF Head(whole) = "-" THEN IntegerTextTenths(whole) - digit
        ELSE IntegerTextTenths(whole) + digit

Returned(value) == [raised |-> "no", value |-> value]
Raised(exception) == [raised |-> exception, value |-> NaN]

\* int(value): a float is truncated toward zero; float("inf") raises
\* OverflowError, float("nan") and a text that is no integer ValueError.
int(value) ==
    CASE value.kind = "int" -> Returned(Num(10 * value.n))
      [] value.kind = "float" ->
            Returned(Num(IF value.n >= 0 THEN 10 * (value.n \div 10)
                         ELSE -(10 * ((-value.n) \div 10))))
      [] value.kind = "str" ->
            IF IsIntegerText(value.text)
            THEN Returned(Num(IntegerTextTenths(value.text)))
            ELSE Raised("ValueError")
      [] value.kind = "inf" -> Raised("OverflowError")
      [] value.kind = "nan" -> Raised("ValueError")
      [] OTHER -> Raised("TypeError")

\* float(value)
float(value) ==
    CASE value.kind = "int" -> Returned(Num(10 * value.n))
      [] value.kind = "float" -> Returned(Num(value.n))
      [] value.kind = "str" ->
            IF IsIntegerText(value.text)
            THEN Returned(Num(IntegerTextTenths(value.text)))
            ELSE IF IsFractionText(value.text)
                 THEN Returned(Num(FractionTextTenths(value.text)))
            ELSE Raised("ValueError")
      [] value.kind = "inf" -> Returned(Inf)
      [] value.kind = "nan" -> Returned(NaN)
      [] OTHER -> Raised("TypeError")

\* safe_get of load_from_dict: a missing key or None gives the default; a
\* ValueError or TypeError of the conversion gives the default; any other
\* exception leaves safe_get.
safe_get(dict, key, default, type_) ==
    IF key \notin DOMAIN dict \/ dict[key].kind = "None" THEN Returned(default)
    ELSE LET got == IF type_ = "int" THEN int(dict[key]) ELSE float(dict[key])
         IN  IF got.raised \in {"ValueError", "TypeError"} THEN Returned(default)
             ELSE got

\* MIN <= value <= MAX, which is False for nan and for inf.
in_range(value, option) ==
    /\ value.kind = "num"
    /\ 10 * MIN_OF[option] <= value.tenths
    /\ value.tenths <= 10 * MAX_OF[option]

\* validate() with the test of an upper limit only.
validate_upper_only(config) ==
    \A option \in Options :
        config[option].kind = "num" /\ config[option].tenths <= 10 * MAX_OF[option]

\* PluginConfig.validate: TRUE when no ValueError is raised.
validate(config) == \A option \in Options : in_range(config[option], option)

\* PluginConfig.load_from_dict
load_from_dict(dict) ==
    IF DOMAIN dict = {} THEN PluginConfig
    ELSE LET got == [option \in Options |->
                        safe_get(dict, option, PluginConfig[option], type_of(option))]
             config == [option \in Options |-> got[option].value]
         IN  IF \E option \in Options : got[option].raised # "no" THEN PluginConfig
             ELSE IF validate(config) THEN config
             ELSE PluginConfig

\* The values supplied for an option: integers at and beside the limits,
\* fractions beside the limits, texts, None, inf and nan.
Supplied(option) ==
    LET lo == MIN_OF[option]
        hi == MAX_OF[option]
    IN  { IntV(lo - 1), IntV(lo), IntV(hi + 1),
          FloatV(10 * hi + 5), FloatV(10 * lo - 5),
          StrV(str(hi + 1)), StrV(str(hi) \o <<".", "5">>), StrV(<<"a", "b", "c">>),
          NoneV, InfV, NanV }

\* At most MaxSupplied options are supplied.
MaxSupplied == 2

\* The options in the order of load_from_dict's keyword arguments.
OptionSeq ==
    << "image_size_limit_mb", "gif_size_limit_mb", "precheck_file_size_mb",
       "max_compression_dimension", "max_total_pixels", "cleanup_loop_interval",
       "processing_timeout", "output_quality", "keep_files_hours",
       "rate_limit_per_minute", "max_gif_frames", "cleanup_timeout" >>

\* The values of the options supplied beside the one under test: a valid
\* one, one above the limit, and a fraction above the limit.
Companions(option) ==
    { IntV(MIN_OF[option]), IntV(MAX_OF[option] + 1), FloatV(10 * MAX_OF[option] + 5) }

\* The dictionaries with at most k of the options from the i-th on, other
\* than skip, with the values of Companions.
RECURSIVE Dicts(_, _, _)
Dicts(i, k, skip) ==
    IF i > Len(OptionSeq) \/ k = 0 THEN {<<>>}
    ELSE IF OptionSeq[i] = skip THEN Dicts(i + 1, k, skip)
    ELSE Dicts(i + 1, k, skip) \cup
         { (OptionSeq[i] :> value) @@ d :
              d \in Dicts(i + 1, k - 1, skip), value \in Companions(OptionSeq[i]) }

\* The dictionaries given to load_from_dict: the empty one, and one option
\* with any of its supplied values beside at most MaxSupplied - 1 others.
IsConfigDict(dict) ==
    \E option \in Options :
       \E value \in Supplied(option), d \in Dicts(1, MaxSupplied - 1, option) :
          dict \in {<<>>, (option :> value) @@ d}

\* ConfigService._load_config calls PluginConfig.load_from_dict.
call_load_from_dict ==
    /\ cf_pc = "idle"
    /\ cf_pc' = "done"
    /\ cf_config' = load_from_dict(config_dict)
    /\ UNCHANGED config_dict
    /\ UNCHANGED <<net_vars, local_vars, cleanup_vars, beside_config_vars>>

ConfigNext == call_load_from_dict

\* The number a supplied value stands for, in tenths, if it stands for one.
IsNumber(value) ==
    \/ value.kind \in {"int", "float", "inf"}
    \/ value.kind = "str" /\ (IsIntegerText(value.text) \/ IsFractionText(value.text))

OutOfRange(option, value) ==
    LET tenths == CASE value.kind = "int" -> 10 * value.n
                    [] value.kind = "float" -> value.n
                    [] value.kind = "str" /\ IsIntegerText(value.text) ->
                          IntegerTextTenths(value.text)
                    [] OTHER -> FractionTextTenths(value.text)
    IN  /\ IsNumber(value)
        /\ \/ value.kind = "inf"
           \/ tenths < 10 * MIN_OF[option]
           \/ tenths > 10 * MAX_OF[option]

\* The value the option's conversion gives is a number outside the range.
ConvertedOutOfRange(option, value) ==
    LET got == IF type_of(option) = "int" THEN int(value) ELSE float(value)
    IN  /\ value.kind # "None"
        /\ \/ got.raised = "OverflowError"
           \/ got.raised = "no" /\ ~in_range(got.value, option)

\* C24 as stated: the configuration load_from_dict returns has every bounded
\* numeric option within [MIN, MAX], and it is the default configuration
\* whenever a supplied value is a number outside its option's range.
C24_OutOfRangeGivesDefault ==
    cf_pc = "done" =>
        /\ \A option \in Options : in_range(cf_config[option], option)
        /\ (\E option \in DOMAIN config_dict : OutOfRange(option, config_dict[option]))
              => cf_config = PluginConfig

\* C24 as amended: the configuration load_from_dict returns has every
\* bounded numeric option within [MIN, MAX]; it is the default configuration
\* whenever a supplied value, converted to the option's type (int truncates
\* toward zero), is outside its option's range; otherwise each option has
\* its converted value, or its default where the value is missing, None or
\* not convertible.
C24_ConvertedOutOfRangeGivesDefault ==
    cf_pc = "done" =>
        /\ \A option \in Options : in_range(cf_config[option], option)
        /\ IF \E option \in DOMAIN config_dict :
                 ConvertedOutOfRange(option, config_dict[option])
           THEN cf_config = PluginConfig
           ELSE \A option \in Options :
                   cf_config[option] =
                      safe_get(config_dict, option, PluginConfig[option],
                               type_of(option)).value

\* A value above the limit came with a valid value for another option, and
\* the configuration returned is the default one.
C24_Witness ==
    /\ cf_pc = "done"
    /\ "image_size_limit_mb" \in DOMAIN config_dict
    /\ config_dict["image_size_limit_mb"] = IntV(MAX_IMAGE_SIZE_MB + 1)
    /\ "max_gif_frames" \in DOMAIN config_dict
    /\ config_dict["max_gif_frames"] = IntV(MIN_GIF_FRAMES)
    /\ cf_config = PluginConfig


(***************************************************************************)
(* The specifications.  Each part runs with the other parts at rest.       *)
(***************************************************************************)

\* No download has begun; the files are those of InitialFS.
NetInit ==
    /\ dl_pc = "idle"
    /\ dl_url = [scheme |-> "http", host |-> <<>>]
    /\ safe_info = None
    /\ resolved_ip = None
    /\ safe_resolutions = {}
    /\ session_open = FALSE
    /\ requests = 0
    /\ cur_host = <<>>
    /\ redirects = 0
    /\ client_resolved = {}
    /\ connected_to = {}
    /\ body_left = 0
    /\ buffer = 0
    /\ dl_result = "pending"
    /\ staged = {}
    /\ fs = InitialFS
    /\ lf_pc = "idle"
    /\ lf_source = <<>>
    /\ lf_result = None
    /\ enable_auto_cleanup = TRUE
    /\ now = 0
    /\ cleanup_queue = <<>>
    /\ tasks = <<>>
    /\ pending_tasks = {}
    /\ cleanup_task = "none"
    /\ stop_event = FALSE
    /\ ca_pc = "idle"
    /\ ca_todo = {}
    /\ ca_pending_at_call = {}
    /\ ops_parity = 0
    /\ image_size_limit_mb = 10
    /\ h_pc = "idle"
    /\ h_source = [kind |-> "none"]
    /\ h_decoder_calls = 0
    /\ h_data = None
    /\ h_input = None
    /\ keep_files_hours = 1
    /\ h_result = "none"
    /\ h_output = None
    /\ h_unlink_failed = FALSE
    /\ rs_pc = "idle"
    /\ rs_url = [scheme |-> "http", host |-> <<>>]
    /\ rs_answers = <<>>
    /\ rs_result = None
    /\ max_gif_frames = 200
    /\ max_total_pixels = 4000 * 4000
    /\ g_pc = "idle"
    /\ g_nframes = 0
    /\ g_size = <<0, 0>>
    /\ g_frame_count = 0
    /\ g_mirrored = 0
    /\ g_result = "none"
    /\ g_output_written = FALSE
    /\ m_pc = "idle"
    /\ m_image = [width |-> 1, height |-> 1, px |-> [c \in {<<0, 0>>} |-> c]]
    /\ m_mode = "unknown"
    /\ m_result = None
    /\ initialized = FALSE
    /\ init_task = 0
    /\ init_tasks = <<>>
    /\ req_pc = [r \in 1..MaxRequests |-> "idle"]
    /\ req_task = [r \in 1..MaxRequests |-> 0]
    /\ loops_created = 0
    /\ init_failed = {}
    /\ av_pc = "idle"
    /\ av_via = "none"
    /\ av_url = 1
    /\ av_attempt = 0
    /\ av_attempts = [i \in 1..Len(avatar_urls) |-> 0]
    /\ av_last = [i \in 1..Len(avatar_urls) |-> "none"]
    /\ av_sleeps = <<>>
    /\ av_result = None
    /\ cf_pc = "idle"
    /\ config_dict = <<>>
    /\ cf_config = None

SpecNet == NetInit /\ [][NetNext]_vars

\* _get_local_file has not been called; the files are any of FileSystems.
LocalInit ==
    /\ fs \in FileSystems
    /\ lf_pc = "idle"
    /\ lf_source = <<>>
    /\ lf_result = None
    /\ dl_pc = "idle"
    /\ dl_url = [scheme |-> "http", host |-> <<>>]
    /\ safe_info = None
    /\ resolved_ip = None
    /\ safe_resolutions = {}
    /\ session_open = FALSE
    /\ requests = 0
    /\ cur_host = <<>>
    /\ redirects = 0
    /\ client_resolved = {}
    /\ connected_to = {}
    /\ body_left = 0
    /\ buffer = 0
    /\ dl_result = "pending"
    /\ staged = {}
    /\ enable_auto_cleanup = TRUE
    /\ now = 0
    /\ cleanup_queue = <<>>
    /\ tasks = <<>>
    /\ pending_tasks = {}
    /\ cleanup_task = "none"
    /\ stop_event = FALSE
    /\ ca_pc = "idle"
    /\ ca_todo = {}
    /\ ca_pending_at_call = {}
    /\ ops_parity = 0
    /\ image_size_limit_mb = 10
    /\ h_pc = "idle"
    /\ h_source = [kind |-> "none"]
    /\ h_decoder_calls = 0
    /\ h_data = None
    /\ h_input = None
    /\ keep_files_hours = 1
    /\ h_result = "none"
    /\ h_output = None
    /\ h_unlink_failed = FALSE
    /\ rs_pc = "idle"
    /\ rs_url = [scheme |-> "http", host |-> <<>>]
    /\ rs_answers = <<>>
    /\ rs_result = None
    /\ max_gif_frames = 200
    /\ max_total_pixels = 4000 * 4000
    /\ g_pc = "idle"
    /\ g_nframes = 0
    /\ g_size = <<0, 0>>
    /\ g_frame_count = 0
    /\ g_mirrored = 0
    /\ g_result = "none"
    /\ g_output_written = FALSE
    /\ m_pc = "idle"
    /\ m_image = [width |-> 1, height |-> 1, px |-> [c \in {<<0, 0>>} |-> c]]
    /\ m_mode = "unknown"
    /\ m_result = None
    /\ initialized = FALSE
    /\ init_task = 0
    /\ init_tasks = <<>>
    /\ req_pc = [r \in 1..MaxRequests |-> "idle"]
    /\ req_task = [r \in 1..MaxRequests |-> 0]
    /\ loops_created = 0
    /\ init_failed = {}
    /\ av_pc = "idle"
    /\ av_via = "none"
    /\ av_url = 1
    /\ av_attempt = 0
    /\ av_attempts = [i \in 1..Len(avatar_urls) |-> 0]
    /\ av_last = [i \in 1..Len(avatar_urls) |-> "none"]
    /\ av_sleeps = <<>>
    /\ av_result = None
    /\ cf_pc = "idle"
    /\ config_dict = <<>>
    /\ cf_config = None

SpecLocal == LocalInit /\ [][LocalNext]_vars

\* CleanupManager.__init__: nothing is queued, no task exists, the loop
\* task is not created; the files are those of InitialFS.
CleanupInit ==
    /\ enable_auto_cleanup \in BOOLEAN
    /\ now = 0
    /\ cleanup_queue = <<>>
    /\ tasks = <<>>
    /\ pending_tasks = {}
    /\ cleanup_task = "none"
    /\ stop_event = FALSE
    /\ ca_pc = "idle"
    /\ ca_todo = {}
    /\ ca_pending_at_call = {}
    /\ ops_parity = 0
    /\ dl_pc = "idle"
    /\ dl_url = [scheme |-> "http", host |-> <<>>]
    /\ safe_info = None
    /\ resolved_ip = None
    /\ safe_resolutions = {}
    /\ session_open = FALSE
    /\ requests = 0
    /\ cur_host = <<>>
    /\ redirects = 0
    /\ client_resolved = {}
    /\ connected_to = {}
    /\ body_left = 0
    /\ buffer = 0
    /\ dl_result = "pending"
    /\ staged = {}
    /\ fs = InitialFS
    /\ lf_pc = "idle"
    /\ lf_source = <<>>
    /\ lf_result = None
    /\ image_size_limit_mb = 10
    /\ h_pc = "idle"
    /\ h_source = [kind |-> "none"]
    /\ h_decoder_calls = 0
    /\ h_data = None
    /\ h_input = None
    /\ keep_files_hours = 1
    /\ h_result = "none"
    /\ h_output = None
    /\ h_unlink_failed = FALSE
    /\ rs_pc = "idle"
    /\ rs_url = [scheme |-> "http", host |-> <<>>]
    /\ rs_answers = <<>>
    /\ rs_result = None
    /\ max_gif_frames = 200
    /\ max_total_pixels = 4000 * 4000
    /\ g_pc = "idle"
    /\ g_nframes = 0
    /\ g_size = <<0, 0>>
    /\ g_frame_count = 0
    /\ g_mirrored = 0
    /\ g_result = "none"
    /\ g_output_written = FALSE
    /\ m_pc = "idle"
    /\ m_image = [width |-> 1, height |-> 1, px |-> [c \in {<<0, 0>>} |-> c]]
    /\ m_mode = "unknown"
    /\ m_result = None
    /\ initialized = FALSE
    /\ init_task = 0
    /\ init_tasks = <<>>
    /\ req_pc = [r \in 1..MaxRequests |-> "idle"]
    /\ req_task = [r \in 1..MaxRequests |-> 0]
    /\ loops_created = 0
    /\ init_failed = {}
    /\ av_pc = "idle"
    /\ av_via = "none"
    /\ av_url = 1
    /\ av_attempt = 0
    /\ av_attempts = [i \in 1..Len(avatar_urls) |-> 0]
    /\ av_last = [i \in 1..Len(avatar_urls) |-> "none"]
    /\ av_sleeps = <<>>
    /\ av_result = None
    /\ cf_pc = "idle"
    /\ config_dict = <<>>
    /\ cf_config = None

SpecCleanup == CleanupInit /\ [][CleanupNext]_vars

\* The cleanup manager with cleanup_all, once begun, going on to its end.
SpecShutdown == CleanupInit /\ [][ShutdownNext]_vars /\ cleanup_all_proceeds

\* The cleanup manager with two output files scheduled.
SpecQueue == CleanupInit /\ [][QueueNext]_vars

\* No download has begun; the configuration is any valid one.
StreamInit ==
    /\ dl_pc = "idle"
    /\ dl_url = [scheme |-> "http", host |-> <<>>]
    /\ safe_info = None
    /\ resolved_ip = None
    /\ safe_resolutions = {}
    /\ session_open = FALSE
    /\ requests = 0
    /\ cur_host = <<>>
    /\ redirects = 0
    /\ client_resolved = {}
    /\ connected_to = {}
    /\ body_left = 0
    /\ buffer = 0
    /\ dl_result = "pending"
    /\ staged = {}
    /\ fs = InitialFS
    /\ lf_pc = "idle"
    /\ lf_source = <<>>
    /\ lf_result = None
    /\ enable_auto_cleanup = TRUE
    /\ now = 0
    /\ cleanup_queue = <<>>
    /\ tasks = <<>>
    /\ pending_tasks = {}
    /\ cleanup_task = "none"
    /\ stop_event = FALSE
    /\ ca_pc = "idle"
    /\ ca_todo = {}
    /\ ca_pending_at_call = {}
    /\ ops_parity = 0
    /\ image_size_limit_mb \in SizeLimitsMB
    /\ h_pc = "idle"
    /\ h_source = [kind |-> "none"]
    /\ h_decoder_calls = 0
    /\ h_data = None
    /\ h_input = None
    /\ keep_files_hours = 1
    /\ h_result = "none"
    /\ h_output = None
    /\ h_unlink_failed = FALSE
    /\ rs_pc = "idle"
    /\ rs_url = [scheme |-> "http", host |-> <<>>]
    /\ rs_answers = <<>>
    /\ rs_result = None
    /\ max_gif_frames = 200
    /\ max_total_pixels = 4000 * 4000
    /\ g_pc = "idle"
    /\ g_nframes = 0
    /\ g_size = <<0, 0>>
    /\ g_frame_count = 0
    /\ g_mirrored = 0
    /\ g_result = "none"
    /\ g_output_written = FALSE
    /\ m_pc = "idle"
    /\ m_image = [width |-> 1, height |-> 1, px |-> [c \in {<<0, 0>>} |-> c]]
    /\ m_mode = "unknown"
    /\ m_result = None
    /\ initialized = FALSE
    /\ init_task = 0
    /\ init_tasks = <<>>
    /\ req_pc = [r \in 1..MaxRequests |-> "idle"]
    /\ req_task = [r \in 1..MaxRequests |-> 0]
    /\ loops_created = 0
    /\ init_failed = {}
    /\ av_pc = "idle"
    /\ av_via = "none"
    /\ av_url = 1
    /\ av_attempt = 0
    /\ av_attempts = [i \in 1..Len(avatar_urls) |-> 0]
    /\ av_last = [i \in 1..Len(avatar_urls) |-> "none"]
    /\ av_sleeps = <<>>
    /\ av_result = None
    /\ cf_pc = "idle"
    /\ config_dict = <<>>
    /\ cf_config = None

SpecStream == StreamInit /\ [][StreamNext]_vars

\* _is_safe_url_with_ip has not been called.
ResolveInit ==
    /\ dl_pc = "idle"
    /\ dl_url = [scheme |-> "http", host |-> <<>>]
    /\ safe_info = None
    /\ resolved_ip = None
    /\ safe_resolutions = {}
    /\ session_open = FALSE
    /\ requests = 0
    /\ cur_host = <<>>
    /\ redirects = 0
    /\ client_resolved = {}
    /\ connected_to = {}
    /\ body_left = 0
    /\ buffer = 0
    /\ dl_result = "pending"
    /\ staged = {}
    /\ fs = InitialFS
    /\ lf_pc = "idle"
    /\ lf_source = <<>>
    /\ lf_result = None
    /\ enable_auto_cleanup = TRUE
    /\ now = 0
    /\ cleanup_queue = <<>>
    /\ tasks = <<>>
    /\ pending_tasks = {}
    /\ cleanup_task = "none"
    /\ stop_event = FALSE
    /\ ca_pc = "idle"
    /\ ca_todo = {}
    /\ ca_pending_at_call = {}
    /\ ops_parity = 0
    /\ image_size_limit_mb = 10
    /\ h_pc = "idle"
    /\ h_source = [kind |-> "none"]
    /\ h_decoder_calls = 0
    /\ h_data = None
    /\ h_input = None
    /\ keep_files_hours = 1
    /\ h_result = "none"
    /\ h_output = None
    /\ h_unlink_failed = FALSE
    /\ rs_pc = "idle"
    /\ rs_url = [scheme |-> "http", host |-> <<>>]
    /\ rs_answers = <<>>
    /\ rs_result = None
    /\ max_gif_frames = 200
    /\ max_total_pixels = 4000 * 4000
    /\ g_pc = "idle"
    /\ g_nframes = 0
    /\ g_size = <<0, 0>>
    /\ g_frame_count = 0
    /\ g_mirrored = 0
    /\ g_result = "none"
    /\ g_output_written = FALSE
    /\ m_pc = "idle"
    /\ m_image = [width |-> 1, height |-> 1, px |-> [c \in {<<0, 0>>} |-> c]]
    /\ m_mode = "unknown"
    /\ m_result = None
    /\ initialized = FALSE
    /\ init_task = 0
    /\ init_tasks = <<>>
    /\ req_pc = [r \in 1..MaxRequests |-> "idle"]
    /\ req_task = [r \in 1..MaxRequests |-> 0]
    /\ loops_created = 0
    /\ init_failed = {}
    /\ av_pc = "idle"
    /\ av_via = "none"
    /\ av_url = 1
    /\ av_attempt = 0
    /\ av_attempts = [i \in 1..Len(avatar_urls) |-> 0]
    /\ av_last = [i \in 1..Len(avatar_urls) |-> "none"]
    /\ av_sleeps = <<>>
    /\ av_result = None
    /\ cf_pc = "idle"
    /\ config_dict = <<>>
    /\ cf_config = None

SpecResolve == ResolveInit /\ [][ResolveNext]_vars

\* _process_gif has not been called; the configuration is any valid one.
GifInit ==
    /\ max_gif_frames \in GifFrameCaps
    /\ max_total_pixels \in GifPixelCaps
    /\ dl_pc = "idle"
    /\ dl_url = [scheme |-> "http", host |-> <<>>]
    /\ safe_info = None
    /\ resolved_ip = None
    /\ safe_resolutions = {}
    /\ session_open = FALSE
    /\ requests = 0
    /\ cur_host = <<>>
    /\ redirects = 0
    /\ client_resolved = {}
    /\ connected_to = {}
    /\ body_left = 0
    /\ buffer = 0
    /\ dl_result = "pending"
    /\ staged = {}
    /\ fs = InitialFS
    /\ lf_pc = "idle"
    /\ lf_source = <<>>
    /\ lf_result = None
    /\ enable_auto_cleanup = TRUE
    /\ now = 0
    /\ cleanup_queue = <<>>
    /\ tasks = <<>>
    /\ pending_tasks = {}
    /\ cleanup_task = "none"
    /\ stop_event = FALSE
    /\ ca_pc = "idle"
    /\ ca_todo = {}
    /\ ca_pending_at_call = {}
    /\ ops_parity = 0
    /\ image_size_limit_mb = 10
    /\ h_pc = "idle"
    /\ h_source = [kind |-> "none"]
    /\ h_decoder_calls = 0
    /\ h_data = None
    /\ h_input = None
    /\ keep_files_hours = 1
    /\ h_result = "none"
    /\ h_output = None
    /\ h_unlink_failed = FALSE
    /\ rs_pc = "idle"
    /\ rs_url = [scheme |-> "http", host |-> <<>>]
    /\ rs_answers = <<>>
    /\ rs_result = None
    /\ g_pc = "idle"
    /\ g_nframes = 0
    /\ g_size = <<0, 0>>
    /\ g_frame_count = 0
    /\ g_mirrored = 0
    /\ g_result = "none"
    /\ g_output_written = FALSE
    /\ m_pc = "idle"
    /\ m_image = [width |-> 1, height |-> 1, px |-> [c \in {<<0, 0>>} |-> c]]
    /\ m_mode = "unknown"
    /\ m_result = None
    /\ initialized = FALSE
    /\ init_task = 0
    /\ init_tasks = <<>>
    /\ req_pc = [r \in 1..MaxRequests |-> "idle"]
    /\ req_task = [r \in 1..MaxRequests |-> 0]
    /\ loops_created = 0
    /\ init_failed = {}
    /\ av_pc = "idle"
    /\ av_via = "none"
    /\ av_url = 1
    /\ av_attempt = 0
    /\ av_attempts = [i \in 1..Len(avatar_urls) |-> 0]
    /\ av_last = [i \in 1..Len(avatar_urls) |-> "none"]
    /\ av_sleeps = <<>>
    /\ av_result = None
    /\ cf_pc = "idle"
    /\ config_dict = <<>>
    /\ cf_config = None

SpecGif == GifInit /\ [][GifNext]_vars

\* _apply_mirror is about to be called with an image and a mode.
MirrorInit ==
    /\ m_image \in Images
    /\ m_mode \in Modes
    /\ dl_pc = "idle"
    /\ dl_url = [scheme |-> "http", host |-> <<>>]
    /\ safe_info = None
    /\ resolved_ip = None
    /\ safe_resolutions = {}
    /\ session_open = FALSE
    /\ requests = 0
    /\ cur_host = <<>>
    /\ redirects = 0
    /\ client_resolved = {}
    /\ connected_to = {}
    /\ body_left = 0
    /\ buffer = 0
    /\ dl_result = "pending"
    /\ staged = {}
    /\ fs = InitialFS
    /\ lf_pc = "idle"
    /\ lf_source = <<>>
    /\ lf_result = None
    /\ enable_auto_cleanup = TRUE
    /\ now = 0
    /\ cleanup_queue = <<>>
    /\ tasks = <<>>
    /\ pending_tasks = {}
    /\ cleanup_task = "none"
    /\ stop_event = FALSE
    /\ ca_pc = "idle"
    /\ ca_todo = {}
    /\ ca_pending_at_call = {}
    /\ ops_parity = 0
    /\ image_size_limit_mb = 10
    /\ h_pc = "idle"
    /\ h_source = [kind |-> "none"]
    /\ h_decoder_calls = 0
    /\ h_data = None
    /\ h_input = None
    /\ keep_files_hours = 1
    /\ h_result = "none"
    /\ h_output = None
    /\ h_unlink_failed = FALSE
    /\ rs_pc = "idle"
    /\ rs_url = [scheme |-> "http", host |-> <<>>]
    /\ rs_answers = <<>>
    /\ rs_result = None
    /\ max_gif_frames = 200
    /\ max_total_pixels = 4000 * 4000
    /\ g_pc = "idle"
    /\ g_nframes = 0
    /\ g_size = <<0, 0>>
    /\ g_frame_count = 0
    /\ g_mirrored = 0
    /\ g_result = "none"
    /\ g_output_written = FALSE
    /\ m_pc = "idle"
    /\ m_result = None
    /\ initialized = FALSE
    /\ init_task = 0
    /\ init_tasks = <<>>
    /\ req_pc = [r \in 1..MaxRequests |-> "idle"]
    /\ req_task = [r \in 1..MaxRequests |-> 0]
    /\ loops_created = 0
    /\ init_failed = {}
    /\ av_pc = "idle"
    /\ av_via = "none"
    /\ av_url = 1
    /\ av_attempt = 0
    /\ av_attempts = [i \in 1..Len(avatar_urls) |-> 0]
    /\ av_last = [i \in 1..Len(avatar_urls) |-> "none"]
    /\ av_sleeps = <<>>
    /\ av_result = None
    /\ cf_pc = "idle"
    /\ config_dict = <<>>
    /\ cf_config = None

SpecMirror == MirrorInit /\ [][MirrorNext]_vars

\* PicMirrorPlugin.__init__: the handler and its cleanup manager are
\* constructed, nothing is initialised and no task exists.
PluginInit ==
    /\ enable_auto_cleanup \in BOOLEAN
    /\ initialized = FALSE
    /\ init_task = 0
    /\ init_tasks = <<>>
    /\ req_pc = [r \in 1..MaxRequests |-> "idle"]
    /\ req_task = [r \in 1..MaxRequests |-> 0]
    /\ loops_created = 0
    /\ cleanup_task = "none"
    /\ dl_pc = "idle"
    /\ dl_url = [scheme |-> "http", host |-> <<>>]
    /\ safe_info = None
    /\ resolved_ip = None
    /\ safe_resolutions = {}
    /\ session_open = FALSE
    /\ requests = 0
    /\ cur_host = <<>>
    /\ redirects = 0
    /\ client_resolved = {}
    /\ connected_to = {}
    /\ body_left = 0
    /\ buffer = 0
    /\ dl_result = "pending"
    /\ staged = {}
    /\ fs = InitialFS
    /\ lf_pc = "idle"
    /\ lf_source = <<>>
    /\ lf_result = None
    /\ now = 0
    /\ cleanup_queue = <<>>
    /\ tasks = <<>>
    /\ pending_tasks = {}
    /\ stop_event = FALSE
    /\ ca_pc = "idle"
    /\ ca_todo = {}
    /\ ca_pending_at_call = {}
    /\ ops_parity = 0
    /\ image_size_limit_mb = 10
    /\ h_pc = "idle"
    /\ h_source = [kind |-> "none"]
    /\ h_decoder_calls = 0
    /\ h_data = None
    /\ h_input = None
    /\ keep_files_hours = 1
    /\ h_result = "none"
    /\ h_output = None
    /\ h_unlink_failed = FALSE
    /\ rs_pc = "idle"
    /\ rs_url = [scheme |-> "http", host |-> <<>>]
    /\ rs_answers = <<>>
    /\ rs_result = None
    /\ max_gif_frames = 200
    /\ max_total_pixels = 4000 * 4000
    /\ g_pc = "idle"
    /\ g_nframes = 0
    /\ g_size = <<0, 0>>
    /\ g_frame_count = 0
    /\ g_mirrored = 0
    /\ g_result = "none"
    /\ g_output_written = FALSE
    /\ m_pc = "idle"
    /\ m_image = [width |-> 1, height |-> 1, px |-> [c \in {<<0, 0>>} |-> c]]
    /\ m_mode = "unknown"
    /\ m_result = None
    /\ init_failed = {}
    /\ av_pc = "idle"
    /\ av_via = "none"
    /\ av_url = 1
    /\ av_attempt = 0
    /\ av_attempts = [i \in 1..Len(avatar_urls) |-> 0]
    /\ av_last = [i \in 1..Len(avatar_urls) |-> "none"]
    /\ av_sleeps = <<>>
    /\ av_result = None
    /\ cf_pc = "idle"
    /\ config_dict = <<>>
    /\ cf_config = None

SpecInit == PluginInit /\ [][InitNext]_vars

\* ImageHandler.__init__ under a valid configuration: no source has been
\* taken up.
HandlerInit ==
    /\ image_size_limit_mb \in SizeLimitsMB
    /\ keep_files_hours \in KeepFilesHours
    /\ enable_auto_cleanup \in BOOLEAN
    /\ h_pc = "idle"
    /\ h_source = [kind |-> "none"]
    /\ h_decoder_calls = 0
    /\ h_data = None
    /\ h_input = None
    /\ dl_pc = "idle"
    /\ dl_url = [scheme |-> "http", host |-> <<>>]
    /\ safe_info = None
    /\ resolved_ip = None
    /\ safe_resolutions = {}
    /\ session_open = FALSE
    /\ requests = 0
    /\ cur_host = <<>>
    /\ redirects = 0
    /\ client_resolved = {}
    /\ connected_to = {}
    /\ body_left = 0
    /\ buffer = 0
    /\ dl_result = "pending"
    /\ staged = {}
    /\ fs = InitialFS
    /\ lf_pc = "idle"
    /\ lf_source = <<>>
    /\ lf_result = None
    /\ now = 0
    /\ cleanup_queue = <<>>
    /\ tasks = <<>>
    /\ pending_tasks = {}
    /\ cleanup_task = "none"
    /\ stop_event = FALSE
    /\ ca_pc = "idle"
    /\ ca_todo = {}
    /\ ca_pending_at_call = {}
    /\ ops_parity = 0
    /\ h_result = "none"
    /\ h_output = None
    /\ h_unlink_failed = FALSE
    /\ rs_pc = "idle"
    /\ rs_url = [scheme |-> "http", host |-> <<>>]
    /\ rs_answers = <<>>
    /\ rs_result = None
    /\ max_gif_frames = 200
    /\ max_total_pixels = 4000 * 4000
    /\ g_pc = "idle"
    /\ g_nframes = 0
    /\ g_size = <<0, 0>>
    /\ g_frame_count = 0
    /\ g_mirrored = 0
    /\ g_result = "none"
    /\ g_output_written = FALSE
    /\ m_pc = "idle"
    /\ m_image = [width |-> 1, height |-> 1, px |-> [c \in {<<0, 0>>} |-> c]]
    /\ m_mode = "unknown"
    /\ m_result = None
    /\ initialized = FALSE
    /\ init_task = 0
    /\ init_tasks = <<>>
    /\ req_pc = [r \in 1..MaxRequests |-> "idle"]
    /\ req_task = [r \in 1..MaxRequests |-> 0]
    /\ loops_created = 0
    /\ init_failed = {}
    /\ av_pc = "idle"
    /\ av_via = "none"
    /\ av_url = 1
    /\ av_attempt = 0
    /\ av_attempts = [i \in 1..Len(avatar_urls) |-> 0]
    /\ av_last = [i \in 1..Len(avatar_urls) |-> "none"]
    /\ av_sleeps = <<>>
    /\ av_result = None
    /\ cf_pc = "idle"
    /\ config_dict = <<>>
    /\ cf_config = None

SpecHandler == HandlerInit /\ [][HandlerNext]_vars

\* No avatar has been asked for.
AvatarInit ==
    /\ dl_pc = "idle"
    /\ dl_url = [scheme |-> "http", host |-> <<>>]
    /\ safe_info = None
    /\ resolved_ip = None
    /\ safe_resolutions = {}
    /\ session_open = FALSE
    /\ requests = 0
    /\ cur_host = <<>>
    /\ redirects = 0
    /\ client_resolved = {}
    /\ connected_to = {}
    /\ body_left = 0
    /\ buffer = 0
    /\ dl_result = "pending"
    /\ staged = {}
    /\ fs = InitialFS
    /\ lf_pc = "idle"
    /\ lf_source = <<>>
    /\ lf_result = None
    /\ enable_auto_cleanup = TRUE
    /\ now = 0
    /\ cleanup_queue = <<>>
    /\ tasks = <<>>
    /\ pending_tasks = {}
    /\ cleanup_task = "none"
    /\ stop_event = FALSE
    /\ ca_pc = "idle"
    /\ ca_todo = {}
    /\ ca_pending_at_call = {}
    /\ ops_parity = 0
    /\ image_size_limit_mb = 10
    /\ h_pc = "idle"
    /\ h_source = [kind |-> "none"]
    /\ h_decoder_calls = 0
    /\ h_data = None
    /\ h_input = None
    /\ keep_files_hours = 1
    /\ h_result = "none"
    /\ h_output = None
    /\ h_unlink_failed = FALSE
    /\ rs_pc = "idle"
    /\ rs_url = [scheme |-> "http", host |-> <<>>]
    /\ rs_answers = <<>>
    /\ rs_result = None
    /\ max_gif_frames = 200
    /\ max_total_pixels = 4000 * 4000
    /\ g_pc = "idle"
    /\ g_nframes = 0
    /\ g_size = <<0, 0>>
    /\ g_frame_count = 0
    /\ g_mirrored = 0
    /\ g_result = "none"
    /\ g_output_written = FALSE
    /\ m_pc = "idle"
    /\ m_image = [width |-> 1, height |-> 1, px |-> [c \in {<<0, 0>>} |-> c]]
    /\ m_mode = "unknown"
    /\ m_result = None
    /\ initialized = FALSE
    /\ init_task = 0
    /\ init_tasks = <<>>
    /\ req_pc = [r \in 1..MaxRequests |-> "idle"]
    /\ req_task = [r \in 1..MaxRequests |-> 0]
    /\ loops_created = 0
    /\ init_failed = {}
    /\ av_pc = "idle"
    /\ av_via = "none"
    /\ av_url = 1
    /\ av_attempt = 0
    /\ av_attempts = [i \in 1..Len(avatar_urls) |-> 0]
    /\ av_last = [i \in 1..Len(avatar_urls) |-> "none"]
    /\ av_sleeps = <<>>
    /\ av_result = None
    /\ cf_pc = "idle"
    /\ config_dict = <<>>
    /\ cf_config = None

SpecAvatar == AvatarInit /\ [][AvatarNext]_vars

\* load_from_dict is about to be called with a configuration dictionary.
ConfigInit ==
    /\ IsConfigDict(config_dict)
    /\ dl_pc = "idle"
    /\ dl_url = [scheme |-> "http", host |-> <<>>]
    /\ safe_info = None
    /\ resolved_ip = None
    /\ safe_resolutions = {}
    /\ session_open = FALSE
    /\ requests = 0
    /\ cur_host = <<>>
    /\ redirects = 0
    /\ client_resolved = {}
    /\ connected_to = {}
    /\ body_left = 0
    /\ buffer = 0
    /\ dl_result = "pending"
    /\ staged = {}
    /\ fs = InitialFS
    /\ lf_pc = "idle"
    /\ lf_source = <<>>
    /\ lf_result = None
    /\ enable_auto_cleanup = TRUE
    /\ now = 0
    /\ cleanup_queue = <<>>
    /\ tasks = <<>>
    /\ pending_tasks = {}
    /\ cleanup_task = "none"
    /\ stop_event = FALSE
    /\ ca_pc = "idle"
    /\ ca_todo = {}
    /\ ca_pending_at_call = {}
    /\ ops_parity = 0
    /\ image_size_limit_mb = 10
    /\ h_pc = "idle"
    /\ h_source = [kind |-> "none"]
    /\ h_decoder_calls = 0
    /\ h_data = None
    /\ h_input = None
    /\ keep_files_hours = 1
    /\ h_result = "none"
    /\ h_output = None
    /\ h_unlink_failed = FALSE
    /\ rs_pc = "idle"
    /\ rs_url = [scheme |-> "http", host |-> <<>>]
    /\ rs_answers = <<>>
    /\ rs_result = None
    /\ max_gif_frames = 200
    /\ max_total_pixels = 4000 * 4000
    /\ g_pc = "idle"
    /\ g_nframes = 0
    /\ g_size = <<0, 0>>
    /\ g_frame_count = 0
    /\ g_mirrored = 0
    /\ g_result = "none"
    /\ g_output_written = FALSE
    /\ m_pc = "idle"
    /\ m_image = [width |-> 1, height |-> 1, px |-> [c \in {<<0, 0>>} |-> c]]
    /\ m_mode = "unknown"
    /\ m_result = None
    /\ initialized = FALSE
    /\ init_task = 0
    /\ init_tasks = <<>>
    /\ req_pc = [r \in 1..MaxRequests |-> "idle"]
    /\ req_task = [r \in 1..MaxRequests |-> 0]
    /\ loops_created = 0
    /\ init_failed = {}
    /\ av_pc = "idle"
    /\ av_via = "none"
    /\ av_url = 1
    /\ av_attempt = 0
    /\ av_attempts = [i \in 1..Len(avatar_urls) |-> 0]
    /\ av_last = [i \in 1..Len(avatar_urls) |-> "none"]
    /\ av_sleeps = <<>>
    /\ av_result = None
    /\ cf_pc = "idle"
    /\ cf_config = None

SpecConfig == ConfigInit /\ [][ConfigNext]_vars

====
